---- MODULE Spec2Model ----
(***************************************************************************)
(* Model of the DIAN invoice pipeline (xml_parser.py, rules_engine.py) and *)
(* of the request handlers of main.py that cache invoices, keep custom     *)
(* rules and gate the submission to SAP.                                   *)
(*                                                                         *)
(* Representation.  A text is a sequence of one-character strings, so that *)
(* strip(), len(), float() and str.replace() are computed and not assumed. *)
(* A float is a fixed-point integer counting thousandths (19.0 is 19000);  *)
(* every number text of the model has at most three decimals, and the sums *)
(* and tolerance tests are made on amounts on which the float arithmetic   *)
(* of the code is exact.  An XML element is a record [present, text];      *)
(* Python's None is NoneV.                                                 *)
(***************************************************************************)
EXTENDS Integers, Sequences, FiniteSets, TLC

VARIABLES
    xml_content,               \* core: the bytes handed to parse_dian_xml
    call_rules,                \* core: the custom_rules argument of validate
    today,                     \* date.today(), as the day of the month
    parsed,                    \* core: outcomes of the parse calls made so far
    validation,                \* core: the last ValidationResult (or NoneV)
    invoice_cache,             \* main.py:110
    custom_rules_cache,        \* main.py:111
    uploaded_documents_cache,  \* main.py:112
    oc_comparison_cache,       \* main.py:115
    response,                  \* the last HTTP response of a handler
    uploads_reading,           \* uploads suspended at await file.read() (main.py:496)
    attachments_cache,         \* main.py:114
    excel_data_cache,          \* main.py:113
    ocr_document,              \* reconciliation: the OCR'd purchase order
    comparison,                \* reconciliation: the last comparison made
    number_input,              \* the argument of _parse_colombian_number
    number_result,             \* what _parse_colombian_number made of it
    extracted                  \* what the unwrapper returned for xml_content

vars == <<xml_content, call_rules, today, parsed, validation,
          invoice_cache, custom_rules_cache, uploaded_documents_cache,
          oc_comparison_cache, response, uploads_reading, attachments_cache,
          excel_data_cache,
          ocr_document, comparison, number_input, number_result, extracted>>

(***************************************************************************)
(* Bounds of the model.                                                    *)
(***************************************************************************)
MaxDay == 2
MaxParses == 2
MaxTaxes == 2
MaxWithholdings == 1
MaxCallRules == 2
MaxStoredRules == 2
MaxReading == 1

(***************************************************************************)
(* Python values.                                                          *)
(***************************************************************************)
NoneV == [t |-> "none"]
StrV(s) == [t |-> "str", s |-> s]
NumV(n) == [t |-> "num", n |-> n]
IntV(n) == [t |-> "int", n |-> n]
ListV(n) == [t |-> "list", len |-> n]
DateV(y, m, d) == [t |-> "date", y |-> y, m |-> m, d |-> d]

El(s) == [present |-> TRUE, text |-> s]
NoEl == [present |-> FALSE, text |-> <<>>]

Digits == {"0", "1", "2", "3", "4", "5", "6", "7", "8", "9"}

DigitVal(c) ==
    CASE c = "0" -> 0 [] c = "1" -> 1 [] c = "2" -> 2 [] c = "3" -> 3
      [] c = "4" -> 4 [] c = "5" -> 5 [] c = "6" -> 6 [] c = "7" -> 7
      [] c = "8" -> 8 [] c = "9" -> 9

DigitChar(n) ==
    CASE n = 0 -> "0" [] n = 1 -> "1" [] n = 2 -> "2" [] n = 3 -> "3"
      [] n = 4 -> "4" [] n = 5 -> "5" [] n = 6 -> "6" [] n = 7 -> "7"
      [] n = 8 -> "8" [] n = 9 -> "9"

SetMin(S) == CHOOSE x \in S : \A y \in S : x <= y
SetMax(S) == CHOOSE x \in S : \A y \in S : x >= y
Abs(x) == IF x < 0 THEN -x ELSE x

UpperCase == <<"A", "B", "C", "D", "E", "F", "G", "H", "I", "J", "K", "L", "M",
               "N", "O", "P", "Q", "R", "S", "T", "U", "V", "W", "X", "Y", "Z">>
LowerCase == <<"a", "b", "c", "d", "e", "f", "g", "h", "i", "j", "k", "l", "m",
               "n", "o", "p", "q", "r", "s", "t", "u", "v", "w", "x", "y", "z">>

LowerChar(c) ==
    IF \E i \in 1..26 : UpperCase[i] = c
    THEN LowerCase[CHOOSE i \in 1..26 : UpperCase[i] = c]
    ELSE c

\* str.lower()
Lower(s) == [i \in 1..Len(s) |-> LowerChar(s[i])]

\* needle in haystack
Contains(haystack, needle) ==
    \E i \in 0..(Len(haystack) - Len(needle)) :
        SubSeq(haystack, i + 1, i + Len(needle)) = needle

\* str.strip(): the text without its leading and trailing blanks
RECURSIVE Strip(_)
Strip(s) ==
    IF s = <<>> THEN s
    ELSE IF Head(s) = " " THEN Strip(Tail(s))
    ELSE IF s[Len(s)] = " " THEN Strip(SubSeq(s, 1, Len(s) - 1))
    ELSE s

\* str.replace(c, ''): every occurrence of the character removed
RemoveChar(s, c) == SelectSeq(s, LAMBDA x : x # c)

\* "int(s) does not raise ValueError" for a stripped text: ASCII digits only
IntOk(s) == s # <<>> /\ \A i \in 1..Len(s) : s[i] \in Digits

RECURSIVE DigitsValue(_)
DigitsValue(ds) ==
    IF ds = <<>> THEN 0
    ELSE 10 * DigitsValue(SubSeq(ds, 1, Len(ds) - 1)) + DigitVal(ds[Len(ds)])

\* int(s) for a text of digits
PyInt(s) == DigitsValue(s)

(***************************************************************************)
(* float(s): blanks around are ignored, one optional sign, digits with at  *)
(* most one point and at least one digit.  FloatOk is "float() does not    *)
(* raise ValueError"; FloatValue is the number, in thousandths.            *)
(***************************************************************************)
\* a stripped text without its sign
Unsigned(t) == IF t # <<>> /\ t[1] \in {"-", "+"} THEN Tail(t) ELSE t

FloatBody(s) == Unsigned(Strip(s))

IsFloatBody(b) ==
    /\ b # <<>>
    /\ \A i \in 1..Len(b) : b[i] \in Digits \cup {"."}
    /\ Cardinality({i \in 1..Len(b) : b[i] = "."}) <= 1
    /\ \E i \in 1..Len(b) : b[i] \in Digits

FloatOk(s) == IsFloatBody(FloatBody(s))

\* where the point of a float body is (past its end if it has none)
DotAt(b) ==
    IF \E i \in 1..Len(b) : b[i] = "."
    THEN SetMin({i \in 1..Len(b) : b[i] = "."})
    ELSE Len(b) + 1

\* the thousandths of integer digits ip and fraction digits fp
Thousandths(ip, fp) ==
    1000 * DigitsValue(ip)
    + 100 * (IF Len(fp) >= 1 THEN DigitVal(fp[1]) ELSE 0)
    + 10 * (IF Len(fp) >= 2 THEN DigitVal(fp[2]) ELSE 0)
    + (IF Len(fp) >= 3 THEN DigitVal(fp[3]) ELSE 0)

SplitAt(b, dot) == Thousandths(SubSeq(b, 1, dot - 1), SubSeq(b, dot + 1, Len(b)))

\* the value of a stripped float text
SignedValue(t) ==
    (IF t[1] = "-" THEN -1 ELSE 1) * SplitAt(Unsigned(t), DotAt(Unsigned(t)))

FloatValue(s) == SignedValue(Strip(s))

\* _find_text(element, path, default)
_find_text(el, default) ==
    IF el.present /\ el.text # <<>> THEN Strip(el.text) ELSE default

\* _find_float(element, path, default=0.0)
\* try: return float(text) except ValueError: return default
FloatOr(text, default) == IF FloatOk(text) THEN FloatValue(text) ELSE default

_find_float(el) ==
    IF _find_text(el, <<>>) # <<>>
    THEN FloatOr(RemoveChar(_find_text(el, <<>>), ","), 0)
    ELSE 0

(***************************************************************************)
(* date.fromisoformat on a YYYY-MM-DD text; any other shape is a           *)
(* ValueError, which _parse_date turns into None.                          *)
(***************************************************************************)
DaysInMonth(y, m) ==
    IF m \in {4, 6, 9, 11} THEN 30
    ELSE IF m = 2 THEN (IF (y % 4 = 0 /\ y % 100 # 0) \/ y % 400 = 0 THEN 29 ELSE 28)
    ELSE 31

IsCalendarDay(y, m, d) == y >= 1 /\ m \in 1..12 /\ d \in 1..DaysInMonth(y, m)

IsIsoDate(s) ==
    /\ Len(s) = 10
    /\ s[5] = "-" /\ s[8] = "-"
    /\ \A i \in {1, 2, 3, 4, 6, 7, 9, 10} : s[i] \in Digits
    /\ IsCalendarDay(DigitsValue(SubSeq(s, 1, 4)), DigitsValue(SubSeq(s, 6, 7)),
                     DigitsValue(SubSeq(s, 9, 10)))

_parse_date(date_str) ==
    IF date_str = <<>> THEN NoneV
    ELSE IF IsIsoDate(date_str)
         THEN DateV(DigitsValue(SubSeq(date_str, 1, 4)),
                    DigitsValue(SubSeq(date_str, 6, 7)),
                    DigitsValue(SubSeq(date_str, 9, 10)))
         ELSE NoneV

(***************************************************************************)
(* xml_parser.py: the element tree of an invoice and its parse.            *)
(*                                                                         *)
(* An invoice tree holds the elements parse_dian_xml looks up:             *)
(*   UUID, IssueDate, DueDate, LineCountNumeric : elements                 *)
(*   AccountingSupplierParty : [present, PartyIdentificationID,            *)
(*        CompanyID, RegistrationName, LegalEntityName, PartyName]         *)
(*   TaxTotal, WithholdingTaxTotal : sequences of                          *)
(*        [TaxableAmount, TaxAmount, Percent, SchemeID]                    *)
(*   LegalMonetaryTotal : [present, LineExtensionAmount, PayableAmount]    *)
(*   InvoiceLine : sequence of [InvoicedQuantity, LineExtensionAmount]     *)
(*   OrderReference : [present, ID, SalesOrderID]                          *)
(* The bytes are [root, well_formed, tree, embedded, payload]: a bare      *)
(* Invoice, or an AttachedDocument envelope whose invoice payload          *)
(* [well_formed, tree] sits in a CDATA section ("cdata") or is missing     *)
(* ("none"); well_formed is what ET.fromstring decides.                    *)
(***************************************************************************)
SchemeIVA == <<"0", "1">>

\* variant of TAX_SCHEME_NAMES: the registry's "Otros" as the default name
TaxSchemeNamesDefaultOtros(tax_scheme_id) ==
    CASE tax_scheme_id = <<"0", "1">> -> <<"I", "V", "A">>
      [] tax_scheme_id = <<"0", "4">> -> <<"I", "N", "C">>
      [] tax_scheme_id = <<"0", "5">> -> <<"R", "e", "t", "e", "I", "V", "A">>
      [] tax_scheme_id = <<"0", "6">> -> <<"R", "e", "t", "e", "R", "e", "n", "t", "a">>
      [] tax_scheme_id = <<"0", "7">> -> <<"R", "e", "t", "e", "I", "C", "A">>
      [] OTHER -> <<"O", "t", "r", "o", "s">>

\* TAX_SCHEME_NAMES.get(tax_scheme_id, f"Tax-{tax_scheme_id}")
TAX_SCHEME_NAMES(tax_scheme_id) ==
    CASE tax_scheme_id = <<"0", "1">> -> <<"I", "V", "A">>
      [] tax_scheme_id = <<"0", "4">> -> <<"I", "N", "C">>
      [] tax_scheme_id = <<"0", "5">> -> <<"R", "e", "t", "e", "I", "V", "A">>
      [] tax_scheme_id = <<"0", "6">> -> <<"R", "e", "t", "e", "R", "e", "n", "t", "a">>
      [] tax_scheme_id = <<"0", "7">> -> <<"R", "e", "t", "e", "I", "C", "A">>
      [] tax_scheme_id = <<"Z", "Z">> -> <<"O", "t", "r", "o", "s">>
      [] OTHER -> <<"T", "a", "x", "-">> \o tax_scheme_id

\* TaxDetail(tax_scheme_id=..., tax_name=TAX_SCHEME_NAMES.get(...), ...)
TaxDetail(tax_scheme_id, taxable_amount, tax_percentage, tax_amount) ==
    [tax_scheme_id  |-> tax_scheme_id,
     tax_name       |-> TAX_SCHEME_NAMES(tax_scheme_id),
     taxable_amount |-> taxable_amount,
     tax_percentage |-> tax_percentage,
     tax_amount     |-> tax_amount]

_parse_tax(tax_element) ==
    TaxDetail(_find_text(tax_element.SchemeID, <<>>),
              _find_float(tax_element.TaxableAmount),
              _find_float(tax_element.Percent),
              _find_float(tax_element.TaxAmount))

\* for e in root.findall(...): tax = _parse_tax(e); if tax.tax_scheme_id: append
KeepTax(tax) == IF tax.tax_scheme_id # <<>> THEN <<tax>> ELSE <<>>

RECURSIVE ParseTaxes(_)
ParseTaxes(elements) ==
    IF elements = <<>> THEN <<>>
    ELSE KeepTax(_parse_tax(Head(elements))) \o ParseTaxes(Tail(elements))

\* variant of SumIva: the amounts of every scheme are added
RECURSIVE SumEveryScheme(_)
SumEveryScheme(taxes) ==
    IF taxes = <<>> THEN 0
    ELSE Head(taxes).tax_amount + SumEveryScheme(Tail(taxes))

\* sum(t.tax_amount for t in taxes if t.tax_scheme_id == "01")
RECURSIVE SumIva(_)
SumIva(taxes) ==
    IF taxes = <<>> THEN 0
    ELSE (IF Head(taxes).tax_scheme_id = SchemeIVA THEN Head(taxes).tax_amount ELSE 0)
         + SumIva(Tail(taxes))

\* sum(t.tax_amount for t in withholding_taxes)
RECURSIVE SumAmounts(_)
SumAmounts(taxes) ==
    IF taxes = <<>> THEN 0
    ELSE Head(taxes).tax_amount + SumAmounts(Tail(taxes))

\* _parse_party: company id and registration name, in the code's precedence
\* Python's "a or b" on texts
OrElse(a, b) == IF a # <<>> THEN a ELSE b

_parse_party(party) ==
    [company_id |-> OrElse(_find_text(party.PartyIdentificationID, <<>>),
                           _find_text(party.CompanyID, <<>>)),
     registration_name |-> OrElse(OrElse(_find_text(party.RegistrationName, <<>>),
                                         _find_text(party.LegalEntityName, <<>>)),
                                  _find_text(party.PartyName, <<>>))]

EmptyParty == [company_id |-> <<>>, registration_name |-> <<>>]

\* _parse_invoice_line: float(quantity_elem.text) is not guarded
LineRaises(line_element) ==
    /\ line_element.InvoicedQuantity.present
    /\ line_element.InvoicedQuantity.text # <<>>
    /\ ~FloatOk(line_element.InvoicedQuantity.text)

_parse_invoice_line(line_element) ==
    [quantity |-> IF line_element.InvoicedQuantity.present
                     /\ line_element.InvoicedQuantity.text # <<>>
                  THEN FloatValue(line_element.InvoicedQuantity.text) ELSE 0,
     line_extension_amount |-> _find_float(line_element.LineExtensionAmount)]

_parse_monetary_total(total_element) ==
    [line_extension_amount |-> _find_float(total_element.LineExtensionAmount),
     payable_amount        |-> _find_float(total_element.PayableAmount)]

ZeroMonetaryTotal == [line_extension_amount |-> 0, payable_amount |-> 0]

OrderAttachment(order_id) ==
    [reference_id |-> order_id, reference_type |-> "orden_compra"]

\* AttachmentReference(reference_id=..., reference_type=...)
AttachmentReference(reference_id, reference_type) ==
    [reference_id |-> reference_id, reference_type |-> reference_type]

\* ref_type of a cac:DocumentReference
DocumentReferenceType(doc_id, doc_type) ==
    IF Contains(Lower(doc_type), <<"o", "r", "d", "e", "n">>)
       \/ Contains(Lower(doc_id), <<"o", "c">>)
    THEN "orden_compra"
    ELSE IF Contains(Lower(doc_type), <<"c", "o", "n", "t", "r", "a", "t", "o">>)
         THEN "contrato"
    ELSE "documento"

\* if doc_id: a cac:DocumentReference with an ID
HasDocId(e) == e.tag = "DocumentReference" /\ _find_text(e.ID, <<>>) # <<>>

\* for doc_ref in root.findall('.//cac:DocumentReference'): ...
DocumentReferences(elements) ==
    [i \in 1..Len(SelectSeq(elements, HasDocId)) |->
        AttachmentReference(
            _find_text(SelectSeq(elements, HasDocId)[i].ID, <<>>),
            DocumentReferenceType(
                _find_text(SelectSeq(elements, HasDocId)[i].ID, <<>>),
                _find_text(SelectSeq(elements, HasDocId)[i].DocumentType, <<>>)))]

\* if ext_ref is not None: ... if uri or doc_hash
HasUriOrHash(e) ==
    /\ e.tag = "Attachment"
    /\ e.ExternalReference
    /\ (_find_text(e.URI, <<>>) # <<>> \/ _find_text(e.DocumentHash, <<>>) # <<>>)

\* reference_id=uri or doc_hash[:20] if doc_hash else "unknown"
UriOrHash(uri, doc_hash) ==
    IF doc_hash # <<>>
    THEN (IF uri # <<>> THEN uri
          ELSE SubSeq(doc_hash, 1, IF Len(doc_hash) < 20 THEN Len(doc_hash) ELSE 20))
    ELSE <<"u", "n", "k", "n", "o", "w", "n">>

\* for attachment in root.findall('.//cac:Attachment'): ...
ExternalReferences(elements) ==
    [i \in 1..Len(SelectSeq(elements, HasUriOrHash)) |->
        AttachmentReference(
            UriOrHash(_find_text(SelectSeq(elements, HasUriOrHash)[i].URI, <<>>),
                      _find_text(SelectSeq(elements, HasUriOrHash)[i].DocumentHash, <<>>)),
            "archivo_adjunto")]

\* attachment_refs of the unwrapper: nothing when ET.fromstring raises
\* ParseError, else the document references, then the attachments
CollectedReferences(content) ==
    IF content.well_formed
    THEN DocumentReferences(content.references) \o ExternalReferences(content.references)
    ELSE <<>>

\* The text of an envelope is a sequence of pieces of markup; "..." is the
\* content of an Invoice element and "text" any other character data.
\* the first piece tok at or after position from, 0 when there is none
FirstFrom(layout, tok, from) ==
    IF {i \in from..Len(layout) : layout[i] = tok} = {} THEN 0
    ELSE SetMin({i \in from..Len(layout) : layout[i] = tok})

\* the first piece tok after a matched position, 0 when nothing was matched
FirstAfter(layout, tok, matched) ==
    IF matched = 0 THEN 0 ELSE FirstFrom(layout, tok, matched + 1)

\* r'<!\[CDATA\[(.*?<Invoice[^>]*>.*?</Invoice>.*?)\]\]>' with re.DOTALL:
\* the positions of its pieces in the leftmost, laziest match
CdataOpenAt(layout) == FirstFrom(layout, "<![CDATA[", 1)
CdataInvoiceAt(layout) == FirstAfter(layout, "<Invoice xmlns>", CdataOpenAt(layout))
\* variant of CdataInvoiceEndAt: the closing tag of the invoice is not required
CdataWithoutEndTag(layout) == CdataInvoiceAt(layout)

CdataInvoiceEndAt(layout) == FirstAfter(layout, "</Invoice>", CdataInvoiceAt(layout))
CdataCloseAt(layout) == FirstAfter(layout, "]]>", CdataInvoiceEndAt(layout))

\* match.group(1) of the CDATA pattern
CdataGroup(layout) == SubSeq(layout, CdataOpenAt(layout) + 1, CdataCloseAt(layout) - 1)

\* r'(<Invoice[^>]*xmlns[^>]*>.*?</Invoice>)' with re.DOTALL
DirectInvoiceAt(layout) ==
    IF \E i \in 1..Len(layout) :
          layout[i] = "<Invoice xmlns>" /\ FirstFrom(layout, "</Invoice>", i + 1) # 0
    THEN FirstFrom(layout, "<Invoice xmlns>", 1)
    ELSE 0
DirectInvoiceEndAt(layout) == FirstAfter(layout, "</Invoice>", DirectInvoiceAt(layout))

\* match.group(1) of the direct pattern
DirectGroup(layout) == SubSeq(layout, DirectInvoiceAt(layout), DirectInvoiceEndAt(layout))

\* an Invoice element, alone or after an XML declaration
InvoiceMarkup == <<"<Invoice xmlns>", "...", "</Invoice>">>
IsInvoiceText(text) == text = InvoiceMarkup \/ text = <<"<?xml?>">> \o InvoiceMarkup

\* a text cut out of the envelope: ET.fromstring reads the embedded invoice
\* when the text is an Invoice element and nothing else
ExtractedText(content, text) ==
    [text |-> text,
     well_formed |-> IsInvoiceText(text) /\ content.payload.well_formed,
     tree |-> content.payload.tree,
     attachment_refs |-> CollectedReferences(content)]

\* variant of _extract_invoice_from_attached_document: the embedded invoice
\* is not looked for, the original content is returned
ExtractKeepsOriginal(content) ==
    [text |-> content.layout, well_formed |-> content.well_formed, tree |-> content.tree,
     attachment_refs |-> CollectedReferences(content)]

\* _extract_invoice_from_attached_document: group(1) of the first pattern
\* that matches, the original content otherwise
_extract_invoice_from_attached_document(content) ==
    IF CdataCloseAt(content.layout) # 0
    THEN ExtractedText(content, CdataGroup(content.layout))
    ELSE IF DirectInvoiceAt(content.layout) # 0
         THEN ExtractedText(content, DirectGroup(content.layout))
    ELSE [text |-> content.layout, well_formed |-> content.well_formed,
          tree |-> content.tree, attachment_refs |-> CollectedReferences(content)]

\* the part of parse_dian_xml that selects what ET.fromstring is given
Unwrapped(content) ==
    IF content.root = "AttachedDocument"
    THEN _extract_invoice_from_attached_document(content)
    ELSE [text |-> content.layout, well_formed |-> content.well_formed,
          tree |-> content.tree, attachment_refs |-> <<>>]

\* str.isdigit() also accepts the superscript digits, which int() rejects:
\* int(line_count_numeric) if line_count_numeric.isdigit() else len(lines)
UnicodeDigits == Digits \cup {"²"}
IsDigit(s) == s # <<>> /\ \A i \in 1..Len(s) : s[i] \in UnicodeDigits
IntRaises(text) == IsDigit(text) /\ ~IntOk(text)
LineCountRaises(root) == IntRaises(_find_text(root.LineCountNumeric, <<"0">>))

\* variant of OrToday: the date of the call replaces the parsed date too
AlwaysToday(issue, now) == now

\* issue_date=_parse_date(...) or date.today()
OrToday(issue, now) == IF issue # NoneV THEN issue ELSE now

\* OrderReference(order_id=..., sales_order_id=...) if order_id else None
OrderReferenceOf(order_id, sales_order_id) ==
    IF order_id # <<>>
    THEN [order_id |-> order_id,
          sales_order_id |-> IF sales_order_id # <<>> THEN StrV(sales_order_id)
                             ELSE NoneV]
    ELSE NoneV

\* int(line_count_numeric) if line_count_numeric.isdigit() else len(lines)
LineCount(line_count_numeric, lines) ==
    IF IsDigit(line_count_numeric) THEN PyInt(line_count_numeric) ELSE Len(lines)

\* variant of WithOrderAttachment: the reference of the order comes first
OrderAttachmentFirst(attachment_refs, order_id) ==
    IF order_id # <<>> THEN <<OrderAttachment(order_id)>> \o attachment_refs
    ELSE attachment_refs

\* if order_id: ... attachment_refs.append(AttachmentReference(...))
WithOrderAttachment(attachment_refs, order_id) ==
    IF order_id # <<>> THEN Append(attachment_refs, OrderAttachment(order_id))
    ELSE attachment_refs

\* XMLInvoiceData(...) of the values parse_dian_xml has extracted
XMLInvoiceData(cufe, issue_date, due_date, supplier, taxes, withholding_taxes, monetary_total, lines, line_count, order_id, sales_order_id, attachment_refs) ==
    [cufe |-> cufe,
     issue_date |-> issue_date,
     due_date |-> due_date,
     supplier |-> supplier,
     taxes |-> taxes,
     withholding_taxes |-> withholding_taxes,
     monetary_total |-> monetary_total,
     lines |-> lines,
     line_count |-> line_count,
     order_reference |-> OrderReferenceOf(order_id, sales_order_id),
     total_iva |-> SumIva(taxes),
     total_retenciones |-> SumAmounts(withholding_taxes),
     attachment_references |-> WithOrderAttachment(attachment_refs, order_id)]

\* the XMLInvoiceData parse_dian_xml builds from a well-formed tree, the
\* current date being now
BuildDocument(root, attachment_refs, now) ==
    XMLInvoiceData(
        _find_text(root.UUID, <<>>),
        OrToday(_parse_date(_find_text(root.IssueDate, <<>>)), now),
        _parse_date(_find_text(root.DueDate, <<>>)),
        IF root.AccountingSupplierParty.present
        THEN _parse_party(root.AccountingSupplierParty) ELSE EmptyParty,
        ParseTaxes(root.TaxTotal),
        ParseTaxes(root.WithholdingTaxTotal),
        IF root.LegalMonetaryTotal.present
        THEN _parse_monetary_total(root.LegalMonetaryTotal) ELSE ZeroMonetaryTotal,
        [i \in 1..Len(root.InvoiceLine) |-> _parse_invoice_line(root.InvoiceLine[i])],
        LineCount(_find_text(root.LineCountNumeric, <<"0">>), root.InvoiceLine),
        IF root.OrderReference.present
        THEN _find_text(root.OrderReference.ID, <<>>) ELSE <<>>,
        IF root.OrderReference.present
        THEN _find_text(root.OrderReference.SalesOrderID, <<>>) ELSE <<>>,
        attachment_refs)

Raised(error) == [ok |-> FALSE, error |-> error]
Returned(value) == [ok |-> TRUE, value |-> value]

\* parse_dian_xml(xml_content), called when date.today() is now
\* root = ET.fromstring(...) and what follows it
ParseRoot(well_formed, root, attachment_refs, now) ==
    IF ~well_formed THEN Raised("ParseError")
    ELSE IF \E i \in 1..Len(root.InvoiceLine) : LineRaises(root.InvoiceLine[i])
         THEN Raised("ValueError")
    ELSE IF LineCountRaises(root) THEN Raised("ValueError")
    ELSE Returned(BuildDocument(root, attachment_refs, now))

parse_dian_xml(content, now) ==
    ParseRoot(Unwrapped(content).well_formed, Unwrapped(content).tree,
              Unwrapped(content).attachment_refs, now)

(***************************************************************************)
(* xml_to_dict: the flat map of a document.  A key is a sequence of        *)
(* chunks whose concatenation is the Python key: <<"cufe">>, and           *)
(* <<"tax_", "i", "v", "a", "_base">> for f"tax_{name.lower()}_base".      *)
(***************************************************************************)
RECURSIVE IntToChars(_)
IntToChars(n) ==
    IF n < 10 THEN <<DigitChar(n)>>
    ELSE IntToChars(n \div 10) \o <<DigitChar(n % 10)>>

\* date.isoformat()
\* the digits of n, zero-padded on the left to the given width
ZeroPad(digits, width) ==
    [i \in 1..(IF Len(digits) < width THEN width - Len(digits) ELSE 0) |-> "0"]
    \o digits

IsoFormat(d) ==
    ZeroPad(IntToChars(d.y), 4) \o <<"-">> \o ZeroPad(IntToChars(d.m), 2)
    \o <<"-">> \o ZeroPad(IntToChars(d.d), 2)

TaxKey(prefix, tax, suffix) == <<prefix>> \o Lower(tax.tax_name) \o <<suffix>>

TaxSuffixes == {"_base", "_porcentaje", "_valor"}

TaxField(tax, suffix) ==
    CASE suffix = "_base" -> NumV(tax.taxable_amount)
      [] suffix = "_porcentaje" -> NumV(tax.tax_percentage)
      [] suffix = "_valor" -> NumV(tax.tax_amount)

\* the fixed keys of the result dict
FixedFlat(xml_data) ==
    [k \in {<<"cufe">>, <<"issue_date">>, <<"due_date">>, <<"supplier_nit">>,
            <<"supplier_name">>, <<"subtotal">>, <<"total_iva">>,
            <<"total_retenciones">>, <<"total_pagable">>, <<"orden_compra">>,
            <<"sales_order">>, <<"line_count">>, <<"taxes">>,
            <<"withholding_taxes">>, <<"items">>, <<"attachment_references">>} |->
        CASE k = <<"cufe">> -> StrV(xml_data.cufe)
          [] k = <<"issue_date">> -> StrV(IsoFormat(xml_data.issue_date))
          [] k = <<"due_date">> ->
                IF xml_data.due_date # NoneV
                THEN StrV(IsoFormat(xml_data.due_date)) ELSE NoneV
          [] k = <<"supplier_nit">> -> StrV(xml_data.supplier.company_id)
          [] k = <<"supplier_name">> -> StrV(xml_data.supplier.registration_name)
          [] k = <<"subtotal">> -> NumV(xml_data.monetary_total.line_extension_amount)
          [] k = <<"total_iva">> -> NumV(xml_data.total_iva)
          [] k = <<"total_retenciones">> -> NumV(xml_data.total_retenciones)
          [] k = <<"total_pagable">> -> NumV(xml_data.monetary_total.payable_amount)
          [] k = <<"orden_compra">> ->
                IF xml_data.order_reference # NoneV
                THEN StrV(xml_data.order_reference.order_id) ELSE NoneV
          [] k = <<"sales_order">> ->
                IF xml_data.order_reference # NoneV
                THEN xml_data.order_reference.sales_order_id ELSE NoneV
          [] k = <<"line_count">> -> IntV(xml_data.line_count)
          [] k = <<"taxes">> -> ListV(Len(xml_data.taxes))
          [] k = <<"withholding_taxes">> -> ListV(Len(xml_data.withholding_taxes))
          [] k = <<"items">> -> ListV(Len(xml_data.lines))
          [] k = <<"attachment_references">> ->
                ListV(Len(xml_data.attachment_references))]

\* result[f"{key_prefix}_..."] = ... for each entry in turn: the last entry
\* of a name is the one that stays
TaxFlatKeys(prefix, taxes) ==
    {TaxKey(prefix, taxes[i], sfx) : i \in 1..Len(taxes), sfx \in TaxSuffixes}

\* the last entry that writes the key
LastWriter(prefix, taxes, key) ==
    SetMax({i \in 1..Len(taxes) :
               \E sfx \in TaxSuffixes : TaxKey(prefix, taxes[i], sfx) = key})

\* what the entry writes under the key
TaxWrites(prefix, tax, key) ==
    TaxField(tax, CHOOSE x \in TaxSuffixes : TaxKey(prefix, tax, x) = key)

TaxFlatValue(prefix, taxes, key) ==
    TaxWrites(prefix, taxes[LastWriter(prefix, taxes, key)], key)

\* the fixed entries, then the writes of the taxes, then of the withholdings
FlatDict(fixed, taxes, withholding_taxes) ==
    [k \in DOMAIN fixed \cup TaxFlatKeys("tax_", taxes)
                        \cup TaxFlatKeys("retencion_", withholding_taxes) |->
        IF k \in TaxFlatKeys("retencion_", withholding_taxes)
        THEN TaxFlatValue("retencion_", withholding_taxes, k)
        ELSE IF k \in TaxFlatKeys("tax_", taxes)
        THEN TaxFlatValue("tax_", taxes, k)
        ELSE fixed[k]]

xml_to_dict(xml_data) ==
    FlatDict(FixedFlat(xml_data), xml_data.taxes, xml_data.withholding_taxes)

\* dict.get(key)
DictGet(d, key) == IF key \in DOMAIN d THEN d[key] ELSE NoneV

(***************************************************************************)
(* rules_engine.py                                                         *)
(***************************************************************************)
STATIC_RULES ==
    << [id |-> "R001", tipo |-> "blocking"],
       [id |-> "R002", tipo |-> "blocking"],
       [id |-> "R003", tipo |-> "warning"],
       [id |-> "R004", tipo |-> "warning"],
       [id |-> "R005", tipo |-> "warning"] >>

VALID_NITS ==
    { <<"8", "3", "0", "0", "9", "9", "8", "4", "7">>,
      <<"9", "0", "0", "1", "2", "3", "4", "5", "6">>,
      <<"8", "0", "0", "9", "9", "9", "8", "8", "8">>,
      <<"8", "6", "0", "0", "0", "1", "0", "2", "2">>,
      <<"9", "0", "0", "5", "5", "5", "4", "4", "4">> }

RuleResult(rule, status, details) ==
    [rule_id |-> rule.id, status |-> status, details |-> details]

_evaluate_r001(xml_data) ==
    IF xml_data = NoneV THEN RuleResult(STATIC_RULES[1], "skipped", NoneV)
    ELSE IF xml_data.supplier.company_id \in VALID_NITS
         THEN RuleResult(STATIC_RULES[1], "passed", [nit |-> xml_data.supplier.company_id])
         ELSE RuleResult(STATIC_RULES[1], "failed", [nit |-> xml_data.supplier.company_id])

_evaluate_r002(xml_data) ==
    IF xml_data = NoneV THEN RuleResult(STATIC_RULES[2], "skipped", NoneV)
    ELSE IF xml_data.cufe # <<>> /\ Len(xml_data.cufe) > 10
         THEN RuleResult(STATIC_RULES[2], "passed", [cufe |-> xml_data.cufe])
         ELSE RuleResult(STATIC_RULES[2], "failed", NoneV)

\* variant of WithinTolerance: the comparison is strict
StrictlyWithinTolerance(calculated_total, total_payable) ==
    Abs(calculated_total - total_payable) < total_payable \div 100

\* tolerance = total_payable * 0.01
\* abs(calculated_total - total_payable) <= tolerance
\* The difference is a whole number of thousandths, so it is at most
\* total_payable / 100 exactly when it is at most the floor of that quotient
\* (and never when total_payable is negative).
WithinTolerance(calculated_total, total_payable) ==
    Abs(calculated_total - total_payable) <= total_payable \div 100

\* the outcome of R003 on the totals it has computed
R003Outcome(subtotal, total_iva, total_retenciones, calculated_total, total_payable) ==
    IF WithinTolerance(calculated_total, total_payable)
    THEN RuleResult(STATIC_RULES[3], "passed",
            [subtotal |-> subtotal, iva |-> total_iva,
             retenciones |-> total_retenciones,
             total_calculado |-> calculated_total,
             total_factura |-> total_payable])
    ELSE RuleResult(STATIC_RULES[3], "failed",
            [subtotal |-> subtotal, iva |-> total_iva,
             retenciones |-> total_retenciones,
             total_calculado |-> calculated_total,
             total_factura |-> total_payable,
             diferencia |-> Abs(calculated_total - total_payable)])

\* calculated_total = subtotal + total_iva - total_retenciones
R003Totals(subtotal, total_iva, total_retenciones, total_payable) ==
    R003Outcome(subtotal, total_iva, total_retenciones,
                subtotal + total_iva - total_retenciones, total_payable)

_evaluate_r003(xml_data) ==
    IF xml_data = NoneV THEN RuleResult(STATIC_RULES[3], "skipped", NoneV)
    ELSE R003Totals(xml_data.monetary_total.line_extension_amount,
                    SumIva(xml_data.taxes),
                    SumAmounts(xml_data.withholding_taxes),
                    xml_data.monetary_total.payable_amount)

\* next((t for t in xml_data.taxes if t.tax_scheme_id == "01"), None)
FirstIva(taxes) ==
    IF \E i \in 1..Len(taxes) : taxes[i].tax_scheme_id = SchemeIVA
    THEN taxes[SetMin({i \in 1..Len(taxes) : taxes[i].tax_scheme_id = SchemeIVA})]
    ELSE NoneV

\* the outcome of R004 on the entry it has picked
R004Outcome(iva_tax) ==
    IF iva_tax = NoneV THEN RuleResult(STATIC_RULES[4], "skipped", NoneV)
    ELSE IF iva_tax.tax_percentage = 19000
         THEN RuleResult(STATIC_RULES[4], "passed",
                 [iva_percent |-> iva_tax.tax_percentage,
                  iva_amount |-> iva_tax.tax_amount])
         ELSE RuleResult(STATIC_RULES[4], "failed",
                 [iva_percent |-> iva_tax.tax_percentage,
                  expected |-> 19000])

_evaluate_r004(xml_data) ==
    IF xml_data = NoneV THEN RuleResult(STATIC_RULES[4], "skipped", NoneV)
    ELSE IF xml_data.taxes = <<>> THEN RuleResult(STATIC_RULES[4], "skipped", NoneV)
    ELSE R004Outcome(FirstIva(xml_data.taxes))

\* variant of _evaluate_r005: a missing order reference is skipped
R005SkipsWhenMissing(xml_data) ==
    IF xml_data = NoneV THEN RuleResult(STATIC_RULES[5], "skipped", NoneV)
    ELSE IF xml_data.order_reference = NoneV
         THEN RuleResult(STATIC_RULES[5], "skipped", NoneV)
    ELSE IF xml_data.order_reference.order_id # <<>>
         THEN RuleResult(STATIC_RULES[5], "passed",
                 [orden_compra |-> xml_data.order_reference.order_id])
         ELSE RuleResult(STATIC_RULES[5], "skipped", NoneV)

_evaluate_r005(xml_data) ==
    IF xml_data = NoneV THEN RuleResult(STATIC_RULES[5], "skipped", NoneV)
    ELSE IF xml_data.order_reference = NoneV
         THEN RuleResult(STATIC_RULES[5], "failed", NoneV)
    ELSE IF xml_data.order_reference.order_id # <<>>
         THEN RuleResult(STATIC_RULES[5], "passed",
                 [orden_compra |-> xml_data.order_reference.order_id])
         ELSE RuleResult(STATIC_RULES[5], "failed", NoneV)

(***************************************************************************)
(* _compare_values of the rules engine.  str() of a float prints at least  *)
(* one decimal; str() of a list is a text no rule value of the model is    *)
(* part of.                                                                *)
(***************************************************************************)
\* the decimals repr() prints for a number of thousandths
FracDigits(frac) ==
    IF frac % 100 = 0 THEN <<DigitChar(frac \div 100)>>
    ELSE IF frac % 10 = 0
         THEN <<DigitChar(frac \div 100), DigitChar((frac \div 10) % 10)>>
    ELSE <<DigitChar(frac \div 100), DigitChar((frac \div 10) % 10), DigitChar(frac % 10)>>

PyStr(v) ==
    CASE v.t = "str" -> v.s
      [] v.t = "int" -> IF v.n < 0 THEN <<"-">> \o IntToChars(-v.n) ELSE IntToChars(v.n)
      [] v.t = "num" ->
            (IF v.n < 0 THEN <<"-">> ELSE <<>>)
            \o IntToChars(Abs(v.n) \div 1000) \o <<".">> \o FracDigits(Abs(v.n) % 1000)
      [] v.t = "list" -> <<"[", "]">>
      [] v.t = "none" -> <<"N", "o", "n", "e">>

IsNumber(v) == v.t \in {"num", "int"}

\* float(v) does not raise: a number, or a text float() accepts
CoerceOk(v) == IsNumber(v) \/ (v.t = "str" /\ FloatOk(v.s))

\* the number, in thousandths
Coerce(v) ==
    CASE v.t = "num" -> v.n
      [] v.t = "int" -> 1000 * v.n
      [] v.t = "str" -> FloatValue(v.s)

\* num1 <operator> num2 for the six comparison operators
NumCompare(num1, operator, num2) ==
    CASE operator = ">" -> num1 > num2
      [] operator = "<" -> num1 < num2
      [] operator = ">=" -> num1 >= num2
      [] operator = "<=" -> num1 <= num2
      [] operator = "==" -> num1 = num2
      [] operator = "!=" -> num1 # num2

\* variant of TextCompare: every operator but == passes on different texts
TextCompareUnordered(str1, operator, str2) ==
    IF operator = "==" THEN str1 = str2 ELSE str1 # str2

\* except (ValueError, TypeError): the comparison of the two str() texts
TextCompare(str1, operator, str2) ==
    IF operator = "==" THEN str1 = str2
    ELSE IF operator = "!=" THEN str1 # str2
    ELSE FALSE

RulesCompare(value1, operator, value2) ==
    IF value1 = NoneV THEN operator = "!=" /\ value2 # NoneV
    ELSE IF operator = "exists" THEN Strip(PyStr(value1)) # <<>>
    ELSE IF operator = "contains"
         THEN Contains(Lower(PyStr(value1)), Lower(PyStr(value2)))
    ELSE IF operator \in {">", "<", ">=", "<=", "==", "!="}
         THEN IF CoerceOk(value1) /\ CoerceOk(value2)
              THEN NumCompare(Coerce(value1), operator, Coerce(value2))
              ELSE TextCompare(PyStr(value1), operator, PyStr(value2))
    ELSE FALSE

\* variant of CustomOutcome: a null field is compared under != and exists
CustomOutcomeComparesNull(rule, field_value) ==
    IF field_value = NoneV /\ rule.condicion.operador \notin {"!=", "exists"}
    THEN RuleResult(rule, "skipped", NoneV)
    ELSE IF RulesCompare(field_value, rule.condicion.operador, rule.condicion.valor)
         THEN RuleResult(rule, "passed", NoneV)
         ELSE RuleResult(rule, "failed",
                 [field |-> rule.condicion.campo, actual_value |-> field_value])

\* the outcome of a custom rule on the value of its field
CustomOutcome(rule, field_value) ==
    IF field_value = NoneV THEN RuleResult(rule, "skipped", NoneV)
    ELSE IF RulesCompare(field_value, rule.condicion.operador, rule.condicion.valor)
         THEN RuleResult(rule, "passed", NoneV)
         ELSE RuleResult(rule, "failed",
                 [field |-> rule.condicion.campo, actual_value |-> field_value])

_evaluate_custom_rule(rule, data) ==
    IF rule.condicion = NoneV THEN RuleResult(rule, "skipped", NoneV)
    ELSE CustomOutcome(rule, DictGet(data, rule.condicion.campo))

\* variant of TipoAt: the severity of a custom rule is not looked up
TipoAtStaticOnly(i, custom_rules) ==
    IF i <= Len(STATIC_RULES) THEN STATIC_RULES[i].tipo ELSE "warning"

\* the severity the counts of validate give the i-th result
TipoAt(i, custom_rules) ==
    IF i <= Len(STATIC_RULES) THEN STATIC_RULES[i].tipo
    ELSE custom_rules[i - Len(STATIC_RULES)].tipo

\* sum(1 for i, r in enumerate(results) if r.status == FAILED and tipo == ...)
RECURSIVE CountFailed(_, _, _, _)
CountFailed(results, custom_rules, tipo, i) ==
    IF i > Len(results) THEN 0
    ELSE (IF results[i].status = "failed" /\ TipoAt(i, custom_rules) = tipo
          THEN 1 ELSE 0)
         + CountFailed(results, custom_rules, tipo, i + 1)

RECURSIVE CountPassed(_, _)
CountPassed(results, i) ==
    IF i > Len(results) THEN 0
    ELSE (IF results[i].status = "passed" THEN 1 ELSE 0)
         + CountPassed(results, i + 1)

\* ValidationResult(results=..., blocking_failures=..., warnings=..., ...)
ValidationResult(results, blocking_failures, warnings, passed) ==
    [results |-> results,
     blocking_failures |-> blocking_failures,
     warnings |-> warnings,
     passed |-> passed,
     can_submit |-> blocking_failures = 0]

\* the counts of validate over the results of all rules
Summary(results, custom_rules) ==
    ValidationResult(results,
                     CountFailed(results, custom_rules, "blocking", 1),
                     CountFailed(results, custom_rules, "warning", 1),
                     CountPassed(results, 1))

validate(xml_data, custom_rules, flat_data) ==
    Summary(<< _evaluate_r001(xml_data), _evaluate_r002(xml_data),
               _evaluate_r003(xml_data), _evaluate_r004(xml_data),
               _evaluate_r005(xml_data) >>
            \o [i \in 1..Len(custom_rules) |->
                   _evaluate_custom_rule(custom_rules[i], flat_data)],
            custom_rules)

(***************************************************************************)
(* main.py: the reconciliation of a parsed document with the fields OCR    *)
(* has extracted from a purchase order.  The number _parse_colombian_number *)
(* returns is a record [negative, whole, milli], so that amounts of        *)
(* hundreds of millions keep their exact value.                            *)
(***************************************************************************)
\* str.replace(sub, ''): every occurrence of the text sub removed, left to right
RECURSIVE RemoveText(_, _)
RemoveText(s, sub) ==
    IF Len(s) < Len(sub) THEN s
    ELSE IF SubSeq(s, 1, Len(sub)) = sub
         THEN RemoveText(SubSeq(s, Len(sub) + 1, Len(s)), sub)
    ELSE <<Head(s)>> \o RemoveText(Tail(s), sub)

\* str.replace(c, d) for characters c and d
ReplaceChar(s, c, d) == [i \in 1..Len(s) |-> IF s[i] = c THEN d ELSE s[i]]

\* str.count(c)
CountChar(s, c) == Cardinality({i \in 1..Len(s) : s[i] = c})

\* s = str(value).strip()
\* s = s.replace('$', '').replace('COP', '').replace(' ', '').strip()
WithoutCurrency(s) ==
    Strip(RemoveChar(RemoveText(RemoveChar(Strip(s), "$"), <<"C", "O", "P">>), " "))

\* variant of SingleDot: six characters are enough for a thousands separator
SingleDotFromSix(s) ==
    IF Len(s) - DotAt(s) = 3 /\ Len(s) >= 6 THEN RemoveChar(s, ".") ELSE s

\* parts = s.split('.')
\* if len(parts) == 2 and len(parts[1]) == 3 and len(s) > 6: s = s.replace('.', '')
SingleDot(s) ==
    IF Len(s) - DotAt(s) = 3 /\ Len(s) > 6 THEN RemoveChar(s, ".") ELSE s

\* the text _parse_colombian_number hands to float()
Normalised(s) ==
    IF CountChar(s, ".") > 0 /\ CountChar(s, ",") > 0
    THEN ReplaceChar(RemoveChar(s, "."), ",", ".")
    ELSE IF CountChar(s, ".") > 0
         THEN (IF CountChar(s, ".") > 1 THEN RemoveChar(s, ".") ELSE SingleDot(s))
    ELSE IF CountChar(s, ",") > 0 THEN ReplaceChar(s, ",", ".")
    ELSE s

\* float(s) of a text float() accepts, as [negative, whole, milli]
DecimalOfBody(b, dot) ==
    [whole |-> DigitsValue(SubSeq(b, 1, dot - 1)),
     milli |-> Thousandths(<<>>, SubSeq(b, dot + 1, Len(b)))]

DecimalOf(t) ==
    [negative |-> t[1] = "-",
     whole    |-> DecimalOfBody(Unsigned(t), DotAt(Unsigned(t))).whole,
     milli    |-> DecimalOfBody(Unsigned(t), DotAt(Unsigned(t))).milli]

\* return float(s)
FloatOfNormalised(s) ==
    IF FloatOk(s) THEN Returned(DecimalOf(Strip(s))) ELSE Raised("ValueError")

_parse_colombian_number(value) == FloatOfNormalised(Normalised(WithoutCurrency(PyStr(value))))

\* the number of a [negative, whole, milli], in thousandths
Milli(d) == (IF d.negative THEN -1 ELSE 1) * (1000 * d.whole + d.milli)

\* (match, match_type) of _compare_values
Compared(match, match_type) == [match |-> match, match_type |-> match_type]

\* x.strip().lower() of str(x)
Folded(v) == Lower(Strip(PyStr(v)))

\* variant of ExactOutcome: partial only when the XML text is part of the OCR text
ExactOutcomeXmlInOc(xml_str, oc_str) ==
    IF xml_str = oc_str THEN Compared(TRUE, "exact")
    ELSE IF Contains(oc_str, xml_str) THEN Compared(TRUE, "partial")
    ELSE Compared(FALSE, "mismatch")

\* compare_type == "exact"
ExactOutcome(xml_str, oc_str) ==
    IF xml_str = oc_str THEN Compared(TRUE, "exact")
    ELSE IF Contains(oc_str, xml_str) \/ Contains(xml_str, oc_str)
         THEN Compared(TRUE, "partial")
    ELSE Compared(FALSE, "mismatch")

\* set(s.split()): the maximal runs of s without a blank
WordSpans(s) ==
    { p \in (1..Len(s)) \X (1..Len(s)) :
        /\ p[1] <= p[2]
        /\ \A k \in p[1]..p[2] : s[k] # " "
        /\ (p[1] = 1 \/ s[p[1] - 1] = " ")
        /\ (p[2] = Len(s) \/ s[p[2] + 1] = " ") }

Words(s) == { SubSeq(s, p[1], p[2]) : p \in WordSpans(s) }

\* variant of HalfOverlap: half of the larger word set
HalfOverlapOfLarger(xml_words, oc_words) ==
    2 * Cardinality(xml_words \cap oc_words)
        >= SetMax({Cardinality(xml_words), Cardinality(oc_words)})

\* len(overlap) >= min(len(xml_words), len(oc_words)) * 0.5
HalfOverlap(xml_words, oc_words) ==
    2 * Cardinality(xml_words \cap oc_words)
        >= SetMin({Cardinality(xml_words), Cardinality(oc_words)})

\* compare_type == "contains"
ContainsOutcome(xml_str, oc_str) ==
    IF Contains(oc_str, xml_str) \/ Contains(xml_str, oc_str)
    THEN Compared(TRUE, "exact")
    ELSE IF HalfOverlap(Words(xml_str), Words(oc_str)) THEN Compared(TRUE, "partial")
    ELSE Compared(FALSE, "mismatch")

\* the largest number of thousandths that is at most x * tolerance, for a
\* tolerance given in thousandths
Fraction(x, tolerance) ==
    (x \div 1000) * tolerance + ((x % 1000) * tolerance) \div 1000

\* if xml_num != 0: diff_pct = abs(xml_num - oc_num) / abs(xml_num)
\* diff_pct <= tolerance
CloseEnough(xml_num, oc_num, tolerance) ==
    xml_num # 0 /\ Abs(xml_num - oc_num) <= Fraction(Abs(xml_num), tolerance)

\* the comparison of two parsed numbers
NumbersOutcome(xml_num, oc_num, tolerance) ==
    IF xml_num = oc_num THEN Compared(TRUE, "exact")
    ELSE IF CloseEnough(xml_num, oc_num, tolerance) THEN Compared(TRUE, "numeric_close")
    ELSE Compared(FALSE, "mismatch")

\* except (ValueError, TypeError): fall back to string comparison
TextFallback(xml_str, oc_str) ==
    IF xml_str = oc_str THEN Compared(TRUE, "exact") ELSE Compared(FALSE, "mismatch")

\* compare_type == "numeric"
NumericOutcome(xml_val, oc_val, xml_num, oc_num, tolerance) ==
    IF xml_num.ok /\ oc_num.ok
    THEN NumbersOutcome(Milli(xml_num.value), Milli(oc_num.value), tolerance)
    ELSE TextFallback(Folded(xml_val), Folded(oc_val))

\* the comparison of two values that are not None
PresentOutcome(xml_val, oc_val, compare_type, tolerance) ==
    CASE compare_type = "exact" -> ExactOutcome(Folded(xml_val), Folded(oc_val))
      [] compare_type = "contains" -> ContainsOutcome(Folded(xml_val), Folded(oc_val))
      [] compare_type = "numeric" ->
            NumericOutcome(xml_val, oc_val, _parse_colombian_number(xml_val),
                           _parse_colombian_number(oc_val), tolerance)
      [] OTHER -> Compared(FALSE, "unknown")

\* main.py _compare_values(xml_val, oc_val, compare_type, tolerance)
_compare_values(xml_val, oc_val, compare_type, tolerance) ==
    IF xml_val = NoneV /\ oc_val = NoneV THEN Compared(TRUE, "both_missing")
    ELSE IF xml_val = NoneV THEN Compared(FALSE, "missing_xml")
    ELSE IF oc_val = NoneV THEN Compared(FALSE, "missing_oc")
    ELSE PresentOutcome(xml_val, oc_val, compare_type, tolerance)

\* models.py XML_TO_OC_FIELD_MAPPING, in the order of the dict; a tolerance
\* is in thousandths (0.05 is 50) and is mapping.get("tolerance", 0.05)
Mapping(xml_field, oc_field, compare_type) ==
    [xml_field |-> xml_field, oc_field |-> oc_field,
     compare_type |-> compare_type, tolerance |-> 50]

XML_TO_OC_FIELD_MAPPING ==
    << Mapping("order_reference", "PurchaseNumber", "exact"),
       Mapping("supplier_nit", "ProviderNit", "exact"),
       Mapping("supplier_name", "ProviderName", "contains"),
       Mapping("total_payable", "InvoiceTotal", "numeric"),
       Mapping("line_extension_amount", "TotalBruto", "numeric"),
       Mapping("total_iva", "TotalIva", "numeric") >>

\* xml_values = {...}; xml_values.get(xml_field)
XmlValue(xml_data, xml_field) ==
    CASE xml_field = "order_reference" ->
            (IF xml_data.order_reference # NoneV
             THEN StrV(xml_data.order_reference.order_id) ELSE NoneV)
      [] xml_field = "supplier_nit" -> StrV(xml_data.supplier.company_id)
      [] xml_field = "supplier_name" -> StrV(xml_data.supplier.registration_name)
      [] xml_field = "total_payable" -> NumV(xml_data.monetary_total.payable_amount)
      [] xml_field = "line_extension_amount" ->
            NumV(xml_data.monetary_total.line_extension_amount)
      [] xml_field = "total_iva" -> NumV(xml_data.total_iva)
      [] OTHER -> NoneV

\* oc_extracted = oc_fields.get(oc_field_name)
\* oc_val = oc_extracted.value if oc_extracted else None
OcValue(oc_fields, oc_field_name) ==
    IF oc_field_name \in DOMAIN oc_fields THEN oc_fields[oc_field_name].value ELSE NoneV

\* FieldComparison(field_name=..., xml_value=..., oc_value=..., match=..., ...)
FieldComparison(xml_field, xml_val, oc_val, compared) ==
    [field_name |-> xml_field, xml_value |-> xml_val, oc_value |-> oc_val,
     match |-> compared.match, match_type |-> compared.match_type]

\* the body of the loop over XML_TO_OC_FIELD_MAPPING.items()
CompareField(mapping, xml_val, oc_val) ==
    FieldComparison(mapping.xml_field, xml_val, oc_val,
        _compare_values(xml_val, oc_val, mapping.compare_type, mapping.tolerance))

Comparisons(xml_data, oc_fields) ==
    [i \in 1..Len(XML_TO_OC_FIELD_MAPPING) |->
        CompareField(XML_TO_OC_FIELD_MAPPING[i],
                     XmlValue(xml_data, XML_TO_OC_FIELD_MAPPING[i].xml_field),
                     OcValue(oc_fields, XML_TO_OC_FIELD_MAPPING[i].oc_field))]

\* variant of Matched: a both_missing comparison is not counted
MatchedWithoutBothMissing(comparisons) ==
    Cardinality({i \in 1..Len(comparisons) :
                    comparisons[i].match /\ comparisons[i].match_type # "both_missing"})

\* matched = sum(1 for c in comparisons if c.match)
Matched(comparisons) == Cardinality({i \in 1..Len(comparisons) : comparisons[i].match})

\* percentage = (matched / total) * 100 if total > 0 else 0, in thousandths
Percentage(matched, total) == IF total > 0 THEN (matched * 100000) \div total ELSE 0

\* variant of ConclusionType: the success band starts at 80
ConclusionTypeFromEighty(percentage) ==
    IF percentage >= 80000 THEN "success"
    ELSE IF percentage >= 70000 THEN "warning"
    ELSE "error"

\* if percentage >= 90: ... elif percentage >= 70: ... else: ...
ConclusionType(percentage) ==
    IF percentage >= 90000 THEN "success"
    ELSE IF percentage >= 70000 THEN "warning"
    ELSE "error"

\* OCComparisonResult(...)
OCComparisonResult(xml_oc_reference, oc_file_name, comparisons, percentage) ==
    [xml_oc_reference |-> IF xml_oc_reference = NoneV \/ xml_oc_reference = StrV(<<>>)
                          THEN StrV(<<"N", "/", "A">>) ELSE xml_oc_reference,
     oc_file_name     |-> oc_file_name,
     comparisons      |-> comparisons,
     overall_match    |-> percentage >= 80000,
     match_percentage |-> percentage,
     matched_fields   |-> Matched(comparisons),
     total_fields     |-> Len(comparisons),
     conclusion_type  |-> ConclusionType(percentage)]

\* the result _run_oc_comparison builds for a document and an OCR'd order
ComparisonOf(xml_data, oc_file_name, comparisons) ==
    OCComparisonResult(XmlValue(xml_data, "order_reference"), oc_file_name, comparisons,
                       Percentage(Matched(comparisons), Len(comparisons)))

CompareDocument(xml_data, oc_doc) ==
    ComparisonOf(xml_data, oc_doc.file_name,
                 Comparisons(xml_data, oc_doc.extracted_fields))

(***************************************************************************)
(* Inputs of the core pipeline: element trees built from small sets of     *)
(* element texts.                                                          *)
(***************************************************************************)
Repeat(c, n) == [i \in 1..n |-> c]

BoundedSeq(S, n) == UNION {[1..k -> S] : k \in 0..n}

TaxElement(scheme, percent, amount) ==
    [SchemeID |-> scheme, Percent |-> percent, TaxAmount |-> amount,
     TaxableAmount |-> El(<<"1", "0", "0", "0", "0", "0", ".", "0", "0">>)]

\* scheme 01 at 19% and at 16%, and INC with a thousands comma in its amount
TaxElements ==
    { TaxElement(El(<<"0", "1">>), El(<<"1", "9", ".", "0", "0">>), El(<<"1", "9", "0", "0", "0", ".", "0", "0">>)),
      TaxElement(El(<<"0", "1">>), El(<<"1", "6", ".", "0", "0">>), El(<<"1", "6", "0", "0", "0", ".", "0", "0">>)),
      TaxElement(El(<<"0", "4">>), El(<<"8", ".", "0", "0">>), El(<<"8", ",", "0", "0", "0", ".", "0", "0">>)) }

WithholdingElements ==
    { TaxElement(El(<<"0", "7">>), El(<<"1", ".", "0", "0">>), El(<<"1", "0", "0", "0", ".", "0", "0">>)),
      TaxElement(El(<<"0", "6">>), El(<<"4", ".", "0", "0">>), El(<<"4", "0", "0", "0", ".", "0", "0">>)) }

Monetary(subtotal, payable) ==
    [present |-> TRUE, LineExtensionAmount |-> subtotal, PayableAmount |-> payable]

NoMonetary == [present |-> FALSE, LineExtensionAmount |-> NoEl, PayableAmount |-> NoEl]

MonetaryTotals ==
    { NoMonetary,
      Monetary(El(<<"1", "0", "0", "0", "0", "0", ".", "0", "0">>), El(<<"1", "1", "9", "0", "0", "0", ".", "0", "0">>)),
      Monetary(El(<<"1", "0", "0", "0", "0", "0", ".", "0", "0">>), El(<<"1", "2", "5", "0", "0", "0", ".", "0", "0">>)),
      Monetary(El(<<"1", "0", "0", "0", "0", "0", ".", "0", "0">>), El(<<"1", "1", "8", "0", "0", "0", ".", "0", "0">>)),
      Monetary(El(<<"1", "0", "0", "0", "0", "0", ".", "0", "0">>), El(<<"-", "1", "1", "9", "0", "0", "0", ".", "0", "0">>)),
      Monetary(El(<<"1", "0", "0", "0", "0", "0", ".", "0", "0">>), El(<<"a", "b", "c">>)),
      Monetary(El(<<"1", "0", "0", "0", "0", "0", ".", "0", "0">>), El(<<"1", "0", "0", "0", "0", "0", ".", "0", "0">>)),
      Monetary(El(<<"-", "1", "1", "9", "0", "0", "0", ".", "0", "0">>), El(<<"-", "1", "1", "9", "0", "0", "0", ".", "0", "0">>)),
      Monetary(El(<<"0">>), El(<<"0">>)) }

Supplier(pid, cid, name) ==
    [present |-> TRUE, PartyIdentificationID |-> pid, CompanyID |-> cid,
     RegistrationName |-> name, LegalEntityName |-> NoEl, PartyName |-> NoEl]

NoSupplier ==
    [present |-> FALSE, PartyIdentificationID |-> NoEl, CompanyID |-> NoEl,
     RegistrationName |-> NoEl, LegalEntityName |-> NoEl, PartyName |-> NoEl]

NitSofttek == <<"8", "3", "0", "0", "9", "9", "8", "4", "7">>
NitUnknown == <<"1", "1", "1", "1", "1", "1", "1", "1", "1">>
NameSofttek == <<"S", "O", "F", "T", "T", "E", "K">>

Suppliers ==
    { NoSupplier,
      Supplier(El(NitSofttek), NoEl, El(NameSofttek)),
      Supplier(NoEl, El(<<" ">> \o NitSofttek), El(NameSofttek)),
      Supplier(El(NitUnknown), El(NitSofttek), El(NameSofttek)),
      Supplier(NoEl, NoEl, NoEl) }

Order(id, sales) == [present |-> TRUE, ID |-> id, SalesOrderID |-> sales]
NoOrder == [present |-> FALSE, ID |-> NoEl, SalesOrderID |-> NoEl]
PoNumber == <<"O", "C", "-", "1">>

Orders == { NoOrder, Order(El(PoNumber), NoEl), Order(El(<<>>), El(PoNumber)) }

Cufes == { NoEl, El(<<>>), El(Repeat("a", 10)), El(Repeat("a", 11)) }

\* a date, a month that does not exist, a day-first date, an empty element
DateElements == { NoEl, El(<<"2", "0", "2", "6", "-", "0", "1", "-", "1", "5">>), El(<<"2", "0", "2", "6", "-", "1", "3", "-", "0", "1">>), El(<<"1", "5", "/", "0", "1", "/", "2", "0", "2", "6">>) }

Line(quantity) == [InvoicedQuantity |-> quantity, LineExtensionAmount |-> El(<<"1", "0", "0", "0", "0", "0", ".", "0", "0">>)]

\* a float literal, a thousands comma, letters, blanks, no text, no element
Lines ==
    { Line(El(<<"2", ".", "5", "0">>)), Line(El(<<"1", ",", "0", "0", "0">>)), Line(El(<<"a", "b", "c">>)),
      Line(El(<<" ", " ">>)), Line(El(<<>>)), Line(NoEl) }

LineCounts == { NoEl, El(<<"1">>), El(<<"x">>), El(<<"²">>) }

GoodTree ==
    [UUID |-> El(Repeat("a", 40)),
     IssueDate |-> El(<<"2", "0", "2", "6", "-", "0", "1", "-", "1", "5">>),
     DueDate |-> NoEl,
     LineCountNumeric |-> El(<<"1">>),
     AccountingSupplierParty |-> Supplier(El(NitSofttek), NoEl, El(NameSofttek)),
     TaxTotal |-> <<TaxElement(El(<<"0", "1">>), El(<<"1", "9", ".", "0", "0">>), El(<<"1", "9", "0", "0", "0", ".", "0", "0">>))>>,
     WithholdingTaxTotal |-> <<>>,
     LegalMonetaryTotal |-> Monetary(El(<<"1", "0", "0", "0", "0", "0", ".", "0", "0">>), El(<<"1", "1", "9", "0", "0", "0", ".", "0", "0">>)),
     InvoiceLine |-> <<Line(El(<<"2", ".", "5", "0">>))>>,
     OrderReference |-> Order(El(PoNumber), NoEl)]

\* what the lookups of parse_dian_xml find in an envelope that is parsed as
\* it stands: none of the invoice's elements
EmptyTree ==
    [UUID |-> NoEl, IssueDate |-> NoEl, DueDate |-> NoEl, LineCountNumeric |-> NoEl,
     AccountingSupplierParty |-> NoSupplier, TaxTotal |-> <<>>,
     WithholdingTaxTotal |-> <<>>, LegalMonetaryTotal |-> NoMonetary,
     InvoiceLine |-> <<>>, OrderReference |-> NoOrder]

Payload(ok, tree) == [well_formed |-> ok, tree |-> tree]

\* an Invoice document
BareInvoice(ok, tree) ==
    [root |-> "Invoice", well_formed |-> ok, tree |-> tree,
     embedded |-> "none", payload |-> Payload(FALSE, EmptyTree),
     layout |-> InvoiceMarkup, references |-> <<>>]

\* an AttachedDocument whose text is layout and whose reference elements
\* are references; as a document of its own it has none of the elements of
\* an invoice
Envelope(embedded, payload, layout, references) ==
    [root |-> "AttachedDocument", well_formed |-> TRUE, tree |-> EmptyTree,
     embedded |-> embedded, payload |-> payload,
     layout |-> <<"<AttachedDocument>">> \o layout \o <<"</AttachedDocument>">>,
     references |-> references]

\* the invoice alone in the CDATA section of the description
CdataEnvelope(ok, tree) ==
    Envelope("cdata", Payload(ok, tree),
             <<"<cbc:Description>", "<![CDATA[">> \o InvoiceMarkup
                \o <<"]]>", "</cbc:Description>">>,
             <<>>)

EmptyEnvelope ==
    Envelope("none", Payload(FALSE, EmptyTree), <<>>, <<>>)

\* the tax entries, on the totals of GoodTree
TaxTrees ==
    { [GoodTree EXCEPT !.TaxTotal = tx, !.WithholdingTaxTotal = wh] :
        tx \in BoundedSeq(TaxElements, MaxTaxes),
        wh \in BoundedSeq(WithholdingElements, MaxWithholdings) }

\* the totals, with and without an IVA entry and a withholding
MoneyTrees ==
    { [GoodTree EXCEPT !.TaxTotal = tx, !.WithholdingTaxTotal = wh,
                       !.LegalMonetaryTotal = mt] :
        tx \in {<<>>, GoodTree.TaxTotal},
        wh \in {<<>>, <<TaxElement(El(<<"0", "7">>), El(<<"1", ".", "0", "0">>), El(<<"1", "0", "0", "0", ".", "0", "0">>))>>},
        mt \in MonetaryTotals }

HeaderTrees ==
    { [GoodTree EXCEPT !.UUID = cu, !.AccountingSupplierParty = su,
                       !.OrderReference = orf] :
        cu \in Cufes, su \in Suppliers, orf \in Orders }

DateTrees ==
    { [GoodTree EXCEPT !.IssueDate = idt, !.DueDate = ddt] :
        idt \in DateElements,
        ddt \in {NoEl, El(<<"2", "0", "2", "6", "-", "0", "1", "-", "1", "5">>), El(<<"1", "5", "/", "0", "1", "/", "2", "0", "2", "6">>)} }

LineTrees ==
    { [GoodTree EXCEPT !.InvoiceLine = ls, !.LineCountNumeric = lc] :
        ls \in BoundedSeq(Lines, 1), lc \in LineCounts }

\* one entry of every scheme of the registry and of schemes outside it, after
\* an entry that has no scheme id
SchemeTrees ==
    { [GoodTree EXCEPT !.TaxTotal = <<TaxElement(NoEl, El(<<"1", "9", ".", "0", "0">>), El(<<"1", "0", "0", "0", ".", "0", "0">>)),
                                      TaxElement(El(sc), El(<<"1", "9", ".", "0", "0">>), El(<<"1", "9", "0", "0", "0", ".", "0", "0">>))>>,
                       !.WithholdingTaxTotal = <<TaxElement(El(wsc), El(<<"1", ".", "0", "0">>), El(<<"1", "0", "0", "0", ".", "0", "0">>))>>] :
        sc \in {<<"0", "1">>, <<"0", "4">>, <<"Z", "Z">>, <<"0", "3">>},
        wsc \in {<<"0", "5">>, <<"0", "6">>, <<"0", "7">>, <<"9", "9">>} }

BadTree ==
    [GoodTree EXCEPT !.UUID = El(<<>>),
                     !.AccountingSupplierParty = Supplier(El(NitUnknown), NoEl, NoEl),
                     !.OrderReference = NoOrder]

\* AttachedDocument envelopes: a payload in CDATA, a payload that is not
\* well formed, and no payload at all
Envelopes ==
    { CdataEnvelope(TRUE, [GoodTree EXCEPT !.OrderReference = orf]) : orf \in Orders }
    \cup { CdataEnvelope(TRUE, BadTree), CdataEnvelope(FALSE, GoodTree), EmptyEnvelope }

CoreContents ==
    { BareInvoice(TRUE, tr) :
        tr \in TaxTrees \cup MoneyTrees \cup SchemeTrees \cup HeaderTrees
               \cup DateTrees \cup LineTrees }
    \cup Envelopes
    \cup { BareInvoice(FALSE, GoodTree) }

(***************************************************************************)
(* Inputs of the reconciliation: documents whose header and totals vary,   *)
(* and the fields OCR extracted from a purchase order, varied one field at *)
(* a time from an order that agrees with GoodTree.                         *)
(***************************************************************************)
NameSofttekFull == <<"S", "O", "F", "T", "T", "E", "K", " ", "R", "E", "N", "O", "V", "A", "T", "I", "O", "N", " ", "S", "A", "S">>

CompareSuppliers ==
    { NoSupplier,
      Supplier(El(NitSofttek), NoEl, El(NameSofttek)),
      Supplier(El(NitSofttek), NoEl, NoEl),
      Supplier(NoEl, NoEl, El(NameSofttekFull)) }

\* the totals of GoodTree, a payable amount with three decimals, zero totals
\* and no totals at all
CompareTotals ==
    { NoMonetary,
      GoodTree.LegalMonetaryTotal,
      Monetary(El(<<"1", "0", "0", "0", "0", "0", ".", "0", "0">>), El(<<"1", "0", "0", ".", "1", "2", "5">>)),
      Monetary(El(<<"0", ".", "0", "0">>), El(<<"0", ".", "0", "0">>)) }

CompareTrees ==
    { [GoodTree EXCEPT !.AccountingSupplierParty = su, !.OrderReference = orf] :
        su \in CompareSuppliers, orf \in {NoOrder, Order(El(PoNumber), NoEl)} }
    \cup { [GoodTree EXCEPT !.LegalMonetaryTotal = mt, !.TaxTotal = tx] :
             mt \in CompareTotals, tx \in {<<>>, GoodTree.TaxTotal} }

CompareContents == { BareInvoice(TRUE, tr) : tr \in CompareTrees }

\* ExtractedField(value=...)
ExtractedField(value) == [value |-> value]

OcFieldNames ==
    {"PurchaseNumber", "ProviderNit", "ProviderName", "InvoiceTotal", "TotalBruto", "TotalIva"}

\* the fields of an order that agrees with GoodTree
OcGoodFields ==
    [n \in OcFieldNames |->
        ExtractedField(
            CASE n = "PurchaseNumber" -> StrV(PoNumber)
              [] n = "ProviderNit" -> StrV(NitSofttek)
              [] n = "ProviderName" -> StrV(NameSofttek)
              [] n = "InvoiceTotal" -> StrV(<<"$", " ", "1", "1", "9", ".", "0", "0", "0", " ", "C", "O", "P">>)
              [] n = "TotalBruto" -> StrV(<<"1", "0", "0", "0", "0", "0">>)
              [] n = "TotalIva" -> StrV(<<"1", "9", "0", "0", "0", ",", "0", "0">>))]

\* what OCR may have read in a field: texts, a number, None
OcReadings(n) ==
    CASE n = "PurchaseNumber" ->
            { NoneV, StrV(<<" ", "o", "c", "-", "1", " ">>), StrV(<<"O", "C", "-", "1", "2">>), StrV(<<"P", "O", "-", "7">>),
              StrV(<<"C", "-", "1">>) }
      [] n = "ProviderNit" ->
            { StrV(NitSofttek \o <<"-", "1">>), StrV(NitUnknown) }
      [] n = "ProviderName" ->
            { StrV(<<"S", "o", "f", "t", "t", "e", "k">>), StrV(<<"R", "E", "N", "O", "V", "A", "T", "I", "O", "N", " ", "S", "O", "F", "T", "T", "E", "K">>),
              StrV(<<"A", "C", "M", "E", " ", "S", "A", "S">>), StrV(<<"A", "C", "M", "E", " ", "L", "T", "D", "A">>) }
      [] n = "InvoiceTotal" ->
            { StrV(<<"1", "1", "9", "0", "0", "0">>), StrV(<<"1", "1", "9", "0", "0", "0", ",", "0", "0">>), NumV(119000000),
              StrV(<<"1", "2", "4", ".", "9", "5", "0">>), StrV(<<"1", "2", "4", ".", "9", "5", "1">>), StrV(<<"1", "1", "3", "0", "5", "0">>),
              StrV(<<"1", "1", "3", "0", "4", "9", ",", "9", "9">>), StrV(<<"a", "b", "c">>), StrV(<<"1", "0", "0", ",", "1", "2", "5">>),
              StrV(<<"1", "0", "0", ".", "1", "2", "5">>), StrV(<<"0">>), StrV(<<"0", ".", "0">>) }
      [] n = "TotalBruto" ->
            { StrV(<<"1", "0", "4", "0", "0", "0">>), StrV(<<"1", "1", "2", "0", "0", "0">>), StrV(<<"1", "0", "5", ".", "0", "0", "0">>),
              StrV(<<"9", "5", "0", "0", "0">>), StrV(<<"0", ",", "0", "0">>) }
      [] n = "TotalIva" ->
            { StrV(<<"1", "9", ".", "0", "0", "0">>), StrV(<<"0">>), StrV(<<"1", ".", "0", "0", "0", ".", "0", "0", "0">>) }

Without(fields, n) == [k \in DOMAIN fields \ {n} |-> fields[k]]

OcFieldMaps ==
    {OcGoodFields, << >>}
    \cup { [Without(OcGoodFields, "PurchaseNumber") EXCEPT
               !["ProviderNit"] = ExtractedField(StrV(NitUnknown))] }
    \cup { Without(OcGoodFields, n) : n \in OcFieldNames }
    \cup UNION { { [OcGoodFields EXCEPT ![n] = ExtractedField(v)] : v \in OcReadings(n) } :
                    n \in OcFieldNames }

\* ProcessedDocument(document_type=..., file_name=..., extracted_fields=...)
ProcessedDocument(document_type, file_name, extracted_fields) ==
    [document_type |-> document_type, file_name |-> file_name,
     extracted_fields |-> extracted_fields]

\* the name of the PDF of the order
OcFileName == <<"o", "c", ".", "p", "d", "f">>

OcDocuments == { ProcessedDocument("orden_compra", OcFileName, f) : f \in OcFieldMaps }

(***************************************************************************)
(* Custom (dynamic) rules a caller may supply.                             *)
(***************************************************************************)
Condition(campo, operador, valor) ==
    [campo |-> campo, operador |-> operador, valor |-> valor]

Rule(id, tipo, condicion) == [id |-> id, tipo |-> tipo, condicion |-> condicion]

CustomRules ==
    { Rule("C1", "blocking", Condition(<<"total_pagable">>, ">", IntV(1000000))),
      Rule("C2", "warning", Condition(<<"cufe">>, "exists", NoneV)),
      Rule("C3", "blocking", NoneV),
      Rule("C4", "blocking", Condition(<<"orden_compra">>, "==", StrV(PoNumber))),
      Rule("C5", "warning", Condition(<<"no_such_field">>, ">", IntV(1))),
      Rule("C6", "warning", Condition(<<"supplier_name">>, "contains", StrV(<<"S", "o", "f", "t">>))),
      Rule("C7", "warning", Condition(<<"total_iva">>, "<", IntV(1000))) }

RuleContents == { BareInvoice(TRUE, GoodTree), BareInvoice(TRUE, BadTree) }

\* date.today() on the given day
Today(day) == DateV(2026, 1, day)

EmptyDict == << >>

(***************************************************************************)
(* The core pipeline: one input, parsed and validated with the caller's    *)
(* rules.                                                                  *)
(***************************************************************************)
AppIdle ==
    /\ invoice_cache = << >>
    /\ custom_rules_cache = << >>
    /\ uploaded_documents_cache = << >>
    /\ oc_comparison_cache = << >>
    /\ response = NoneV
    /\ uploads_reading = {}
    /\ attachments_cache = << >>
    /\ excel_data_cache = << >>

\* no reconciliation input and no reconciliation made
ReconcileIdle ==
    /\ ocr_document = NoneV
    /\ comparison = NoneV
    /\ number_input = NoneV
    /\ number_result = NoneV
    /\ extracted = NoneV

ReconcileUnchanged ==
    UNCHANGED <<ocr_document, comparison, number_input, number_result, extracted>>

InitCore ==
    /\ \/ xml_content \in CoreContents /\ call_rules = <<>>
       \/ xml_content \in RuleContents
          /\ call_rules \in BoundedSeq(CustomRules, MaxCallRules)
    /\ today = 1
    /\ parsed = <<>>
    /\ validation = NoneV
    /\ AppIdle
    /\ ReconcileIdle

AppUnchanged ==
    UNCHANGED <<invoice_cache, custom_rules_cache, uploaded_documents_cache,
                oc_comparison_cache, response, uploads_reading, attachments_cache,
                excel_data_cache>>

\* midnight passes
Tick ==
    /\ today < MaxDay
    /\ today' = today + 1
    /\ UNCHANGED <<xml_content, call_rules, parsed, validation>>
    /\ AppUnchanged
    /\ ReconcileUnchanged

\* parse_dian_xml(xml_content)
ParseCall ==
    /\ Len(parsed) < MaxParses
    /\ parsed' = Append(parsed, [day |-> today,
                                 outcome |-> parse_dian_xml(xml_content, Today(today))])
    /\ UNCHANGED <<xml_content, call_rules, today, validation>>
    /\ AppUnchanged
    /\ ReconcileUnchanged

LastParse == parsed[Len(parsed)].outcome

\* validate(xml_data, custom_rules, flat_data) on the document parsed last
ValidateCall ==
    /\ parsed # <<>>
    /\ LastParse.ok
    /\ validation' =
          [xml_data |-> LastParse.value,
           custom_rules |-> call_rules,
           flat_data |-> xml_to_dict(LastParse.value),
           result |-> validate(LastParse.value, call_rules,
                               xml_to_dict(LastParse.value))]
    /\ UNCHANGED <<xml_content, call_rules, today, parsed>>
    /\ AppUnchanged
    /\ ReconcileUnchanged

\* validate() of a caller that has no document
ValidateNoDocument ==
    /\ IF parsed = <<>> THEN TRUE ELSE ~LastParse.ok
    /\ validation' =
          [xml_data |-> NoneV,
           custom_rules |-> call_rules,
           flat_data |-> EmptyDict,
           result |-> validate(NoneV, call_rules, EmptyDict)]
    /\ UNCHANGED <<xml_content, call_rules, today, parsed>>
    /\ AppUnchanged
    /\ ReconcileUnchanged

NextCore == ParseCall \/ ValidateCall \/ ValidateNoDocument

SpecCore == InitCore /\ [][NextCore]_vars

(***************************************************************************)
(* The parser over time: one input, parsed again as the days pass.         *)
(***************************************************************************)
ClockContents ==
    { BareInvoice(TRUE, tr) : tr \in DateTrees }
    \cup { CdataEnvelope(TRUE, GoodTree), BareInvoice(FALSE, GoodTree), EmptyEnvelope }

InitClock ==
    /\ xml_content \in ClockContents
    /\ call_rules = <<>>
    /\ today = 1
    /\ parsed = <<>>
    /\ validation = NoneV
    /\ AppIdle
    /\ ReconcileIdle

NextClock == Tick \/ ParseCall

SpecClock == InitClock /\ [][NextClock]_vars


(***************************************************************************)
(* The number parser alone: one reading, a text with or without currency   *)
(* marks or a number, and the call that parses it.                         *)
(***************************************************************************)
NumberBodies ==
    { <<"1", "3", "7", ".", "3", "1", "0", ".", "9", "9", "2">>, <<"1", ".", "2", "3", "4", ",", "5", "6">>,
      <<"1", "2", "3", ".", "4", "5">>, <<"1", ".", "5", "0", "0", ".", "0", "0", "0">>,
      <<"1", "2", ".", "3", "4", "5">>, <<"1", "2", "3", ".", "4", "5", "6">>, <<"1", "2", "3", "4", ".", "5", "6", "7">>,
      <<"1", ".", "2", "3", "4">>, <<"1", "2", "3", "4", ",", "5">>, <<"1", "5", "0", "0">>,
      <<"1", ".", "2", "3", "4", ".", "5", "6", "7", ",", "8", "9">>, <<"0", ",", "5">>,
      <<"a", "b", "c">>, <<>>, <<"1", ",", "2", ",", "3">>, <<"-", "1", "2", "3", ".", "4", "5", "6">>,
      <<"-", "1", "2", ".", "3", "4", "5">>, <<"1", ".", "2", "3", "4", "5">>, <<"1", "2", ".", "3", "4", "5", "6", ",", "7">> }

CurrencyPrefixes == { <<>>, <<"$">>, <<"$", " ">> }

CurrencySuffixes == { <<>>, <<" ", "C", "O", "P">>, <<"C", "O", "P">> }

NumberInputs ==
    { StrV(p \o b \o s) : p \in CurrencyPrefixes, b \in NumberBodies, s \in CurrencySuffixes }
    \cup { NumV(100125), NumV(1234560), NumV(1500000), IntV(1500), IntV(1500000) }

InitNumber ==
    /\ xml_content = NoneV
    /\ call_rules = <<>>
    /\ today = 1
    /\ parsed = <<>>
    /\ validation = NoneV
    /\ AppIdle
    /\ ocr_document = NoneV
    /\ comparison = NoneV
    /\ number_input \in NumberInputs
    /\ number_result = NoneV
    /\ extracted = NoneV

\* _parse_colombian_number(number_input)
NumberCall ==
    /\ number_input # NoneV
    /\ number_result' = _parse_colombian_number(number_input)
    /\ UNCHANGED <<xml_content, call_rules, today, parsed, validation>>
    /\ UNCHANGED <<ocr_document, comparison, number_input, extracted>>
    /\ AppUnchanged

NextNumber == NumberCall

SpecNumber == InitNumber /\ [][NextNumber]_vars

(***************************************************************************)
(* The unwrapper alone: AttachedDocument envelopes with the invoice in a   *)
(* CDATA section, directly in the description, escaped, cut short or       *)
(* missing, and with reference elements around it.                         *)
(***************************************************************************)
DocumentReferenceElement(id, document_type) ==
    [tag |-> "DocumentReference", ID |-> id, DocumentType |-> document_type]

AttachmentElement(external_reference, uri, document_hash) ==
    [tag |-> "Attachment", ExternalReference |-> external_reference,
     URI |-> uri, DocumentHash |-> document_hash]

ReferenceElements ==
    { <<>>,
      <<DocumentReferenceElement(El(<<"O", "C", "-", "1">>), NoEl)>>,
      <<DocumentReferenceElement(NoEl, El(<<"O", "r", "d", "e", "n", " ", "d", "e", " ", "C", "o", "m", "p", "r", "a">>))>>,
      <<DocumentReferenceElement(El(<<"F", "-", "1">>), El(<<"O", "r", "d", "e", "n", " ", "d", "e", " ", "C", "o", "m", "p", "r", "a">>)),
        DocumentReferenceElement(El(<<"F", "-", "2">>), El(<<"C", "o", "n", "t", "r", "a", "t", "o">>))>>,
      <<AttachmentElement(TRUE, El(<<"a", ".", "p", "d", "f">>), El(<<"0", "1", "2", "3", "4", "5", "6", "7", "8", "9", "a", "b", "c", "d", "e", "f", "0", "1", "2", "3", "4", "5", "6", "7", "8", "9">>)),
        DocumentReferenceElement(El(<<"F", "-", "2">>), NoEl)>>,
      <<AttachmentElement(TRUE, NoEl, El(<<"0", "1", "2", "3", "4", "5", "6", "7", "8", "9", "a", "b", "c", "d", "e", "f", "0", "1", "2", "3", "4", "5", "6", "7", "8", "9">>))>>,
      <<AttachmentElement(TRUE, El(<<"a", ".", "p", "d", "f">>), NoEl)>>,
      <<AttachmentElement(FALSE, NoEl, NoEl)>>,
      <<AttachmentElement(TRUE, NoEl, NoEl)>>,
      <<DocumentReferenceElement(El(<<"D", "O", "C", "-", "1">>), El(<<"C", "o", "n", "t", "r", "a", "t", "o">>))>> }

Described(markup) == <<"<cbc:Description>">> \o markup \o <<"</cbc:Description>">>

\* the invoice in a CDATA section, after lead and before trail
InCdata(lead, trail) ==
    Described(<<"<![CDATA[">> \o lead \o InvoiceMarkup \o trail \o <<"]]>">>)

CdataLayouts ==
    { InCdata(lead, trail) : lead \in {<<>>, <<"<?xml?>">>, <<"text">>},
                             trail \in {<<>>, <<"text">>} }

\* a note with a CDATA section of its own
NoteFirst == <<"<cbc:Note>", "<![CDATA[", "text", "]]>", "</cbc:Note>">>

DirectLayout == Described(InvoiceMarkup)

EscapedLayout == Described(<<"&lt;Invoice xmlns&gt;", "...", "&lt;/Invoice&gt;">>)

\* no invoice, and an invoice without its closing tag
NoInvoiceLayouts ==
    { <<>>, Described(<<"text">>), NoteFirst,
      Described(<<"<![CDATA[", "<Invoice xmlns>", "...", "]]>">>) }

UnwrapPayloads ==
    { Payload(TRUE, GoodTree), Payload(TRUE, [GoodTree EXCEPT !.OrderReference = NoOrder]),
      Payload(FALSE, GoodTree) }

UnwrapEnvelopes ==
    { Envelope("cdata", p, l, r) :
        p \in UnwrapPayloads, l \in CdataLayouts \cup { NoteFirst \o c : c \in CdataLayouts },
        r \in ReferenceElements }
    \cup { Envelope("direct", p, l, r) :
             p \in UnwrapPayloads, l \in {DirectLayout, NoteFirst \o DirectLayout},
             r \in ReferenceElements }
    \cup { Envelope("escaped", p, EscapedLayout, r) :
             p \in UnwrapPayloads, r \in ReferenceElements }
    \cup { Envelope("none", Payload(FALSE, EmptyTree), l, r) :
             l \in NoInvoiceLayouts, r \in ReferenceElements }

\* envelopes, and the same envelopes with markup ET.fromstring rejects
UnwrapContents ==
    UnwrapEnvelopes \cup { [e EXCEPT !.well_formed = FALSE] : e \in UnwrapEnvelopes }
    \cup { BareInvoice(TRUE, p.tree) : p \in UnwrapPayloads }

InitUnwrap ==
    /\ xml_content \in UnwrapContents
    /\ call_rules = <<>>
    /\ today = 1
    /\ parsed = <<>>
    /\ validation = NoneV
    /\ AppIdle
    /\ ReconcileIdle

\* xml_content, attachment_refs = _extract_invoice_from_attached_document(xml_content)
ExtractCall ==
    /\ xml_content # NoneV
    /\ xml_content.root = "AttachedDocument"
    /\ extracted' = _extract_invoice_from_attached_document(xml_content)
    /\ UNCHANGED <<xml_content, call_rules, today, parsed, validation>>
    /\ UNCHANGED <<ocr_document, comparison, number_input, number_result>>
    /\ AppUnchanged

NextUnwrap == ParseCall \/ ExtractCall \/ ValidateCall

SpecUnwrap == InitUnwrap /\ [][NextUnwrap]_vars

(***************************************************************************)
(* Dynamic rules: one rule of every operator on fields that hold a text, a *)
(* float, an int, a list and no value, validated on documents whose CUFE   *)
(* text varies and on a document without order reference and due date.     *)
(***************************************************************************)
\* CUFE texts: two numerals of the same number, letters, mixed case, empty
OperatorCufes ==
    { El(<<"1", "9">>), El(<<"1", "9", ".", "0">>), El(<<"a", "b", "c">>), El(<<"A", "b", "c", " ", "d">>), El(<<>>) }

\* every CUFE text on a document with an order and a due date, and one
\* document without both
OperatorTrees ==
    { [GoodTree EXCEPT !.UUID = cu, !.DueDate = El(<<"2", "0", "2", "6", "-", "0", "1", "-", "1", "5">>)] : cu \in OperatorCufes }
    \cup { [GoodTree EXCEPT !.OrderReference = NoOrder] }

OperatorContents == { BareInvoice(TRUE, tr) : tr \in OperatorTrees }

\* condicion.campo: a text, a float, an int, an empty list, two fields that
\* are None when the document lacks them, and a key the flat map never has
OperatorFields ==
    { <<"cufe">>, <<"total_pagable">>, <<"line_count">>, <<"withholding_taxes">>,
      <<"orden_compra">>, <<"due_date">>, <<"no_such_field">> }

\* condicion.operador: the eight operators and one outside them
OperatorNames == { ">", "<", ">=", "<=", "==", "!=", "contains", "exists", "in" }

\* condicion.valor
OperatorValues ==
    { IntV(19), NumV(19500), IntV(119000), StrV(<<"1", "9">>), StrV(<<"a", "b", "c">>),
      StrV(<<"B", "C">>), NoneV }

OperatorRules ==
    { Rule("D1", "warning", Condition(campo, operador, valor)) :
        campo \in OperatorFields, operador \in OperatorNames,
        valor \in OperatorValues }
    \cup { Rule("D0", "warning", NoneV) }

InitRules ==
    /\ xml_content \in OperatorContents
    /\ call_rules \in { <<rule>> : rule \in OperatorRules }
    /\ today = 1
    /\ parsed = <<>>
    /\ validation = NoneV
    /\ AppIdle
    /\ ReconcileIdle

SpecRules == InitRules /\ [][NextCore]_vars

(***************************************************************************)
(* main.py: the request handlers over the in-memory caches.  A cache is a  *)
(* function whose DOMAIN is the set of its keys.  The blob container holds *)
(* the ZIP of "inv1", whose XML parses, and of "inv2", whose XML is not    *)
(* well formed; Document Intelligence is an external service and its       *)
(* outcome for a PDF is an input of the handler that processes it.         *)
(***************************************************************************)
InvoiceIds == {"inv1", "inv2"}

\* blob_service.list_invoices() with the XML of each ZIP
BlobStore ==
    [id \in InvoiceIds |->
        IF id = "inv1" THEN BareInvoice(TRUE, GoodTree)
        ELSE BareInvoice(FALSE, GoodTree)]

\* files a client uploads to /api/invoices/upload-xml: the invoice id is the
\* file name without its extension
XmlUploads ==
    { [invoice_id |-> "inv1", content |-> BareInvoice(TRUE, BadTree)],
      [invoice_id |-> "inv1", content |-> BareInvoice(FALSE, BadTree)] }

\* the rules a client stores: one on a field of the invoice, one on a field
\* of the uploaded order
StoredRules ==
    { Rule("S1", "blocking", Condition(<<"total_pagable">>, ">", IntV(1000000))),
      Rule("S2", "blocking", Condition(<<"orden_compra", "_", "numero_orden">>, "==",
                                       StrV(PoNumber))) }

\* the document_type values the upload handlers accept
OcrTypes == {"orden_compra", "formato_cumplimiento"}

\* OCRDocumentType.ORDEN_COMPRA if document_type == "orden_compra"
\* else OCRDocumentType.FORMATO_CUMPLIMIENTO
OcrTypeOf(document_type) ==
    IF document_type = "orden_compra" THEN "ORDEN_COMPRA" ELSE "FORMATO_CUMPLIMIENTO"

\* re.search(r'(\d{10})', filename) matches at position i
TenDigitsAt(filename, i) ==
    i + 9 <= Len(filename) /\ \A j \in i..(i + 9) : filename[j] \in Digits

DefaultOcNumber == <<"4", "5", "0", "0", "7", "9", "9", "3", "0", "6">>

\* document_processor._extract_oc_number_from_filename
_extract_oc_number_from_filename(filename) ==
    IF \E i \in 1..Len(filename) : TenDigitsAt(filename, i)
    THEN SubSeq(filename, SetMin({i \in 1..Len(filename) : TenDigitsAt(filename, i)}),
                SetMin({i \in 1..Len(filename) : TenDigitsAt(filename, i)}) + 9)
    ELSE DefaultOcNumber

\* document_processor._get_mock_oc_document; of the fields of the mock order
\* the model keeps the three texts the reconciliation reads (its amounts are
\* beyond the integers of the model)
_get_mock_oc_document(filename) ==
    ProcessedDocument("orden_compra", filename,
        [n \in {"PurchaseNumber", "ProviderName", "ProviderNit"} |->
            ExtractedField(
                CASE n = "PurchaseNumber" -> StrV(_extract_oc_number_from_filename(filename))
                  [] n = "ProviderName" -> StrV(NameSofttekFull)
                  [] n = "ProviderNit" -> StrV(NitSofttek))])

\* document_processor._get_mock_cumplimiento_document, with its first field
_get_mock_cumplimiento_document(filename) ==
    ProcessedDocument("formato_cumplimiento", filename,
        [n \in {"FormatoID"} |-> ExtractedField(StrV(<<"1", "0", "0", "0", "0", "2", "3", "3", "8", "6", "8">>))])

\* the mock document process_pdf returns for an OCR type
MockDocument(filename, doc_type) ==
    IF doc_type = "ORDEN_COMPRA" THEN _get_mock_oc_document(filename)
    ELSE _get_mock_cumplimiento_document(filename)

\* mock_doc.extracted_fields["_modo_demo"] = ...; ["_nota"] = ...
DemoNotes == {"_modo_demo", "_nota"}

WithDemoNotes(mock_doc) ==
    [mock_doc EXCEPT !.extracted_fields =
        [n \in DOMAIN mock_doc.extracted_fields \cup DemoNotes |->
            IF n \in DemoNotes THEN ExtractedField(StrV(<<"d", "e", "m", "o">>))
            ELSE mock_doc.extracted_fields[n]]]

\* DocumentType.ORDEN_COMPRA if doc_type == OCRDocumentType.ORDEN_COMPRA
\* else DocumentType.FORMATO_CUMPLIMIENTO, as the value of the member
DocumentTypeOf(doc_type) ==
    IF doc_type = "ORDEN_COMPRA" THEN "orden_compra" ELSE "formato_cumplimiento"

\* what Document Intelligence does with the PDF: the processor runs in mock
\* mode, or the service reads fields, or the call raises
MockReading == [mode |-> "mock"]
FailedReading == [mode |-> "fallback"]
RealReading(fields) == [mode |-> "real", fields |-> fields]

\* document_processor.process_pdf(content, filename, doc_type)
process_pdf(filename, doc_type, reading) ==
    IF reading.mode = "mock" THEN MockDocument(filename, doc_type)
    ELSE IF reading.mode = "real"
         THEN ProcessedDocument(DocumentTypeOf(doc_type), filename, reading.fields)
         ELSE WithDemoNotes(MockDocument(filename, doc_type))

\* the fields read in an order whose number is not PoNumber
OrderFields == [k \in {"numero_orden"} |-> ExtractedField(StrV(<<"O", "C", "-", "9">>))]

\* the file of that order
OrderFile == <<"o", "r", "d", "e", "n", ".", "p", "d", "f">>

\* a file whose name holds ten digits
TenDigitFile == <<"O", "C", " ", "4", "5", "0", "0", "8", "1", "1", "4", "0", "4", ".", "p", "d", "f">>

\* dict[key] = value
Put(d, key, value) ==
    [k \in DOMAIN d \cup {key} |-> IF k = key THEN value ELSE d[k]]

\* dict.get(key, default)
GetOr(d, key, default) == IF key \in DOMAIN d THEN d[key] ELSE default

\* InvoicePackage(...): validation_result keeps its default
InvoicePackage(status, xml_data) ==
    [status |-> status, xml_data |-> xml_data, validation_result |-> NoneV]

\* the package process_invoice builds from the outcome of the parse
ProcessedPackage(outcome) ==
    IF outcome.ok THEN InvoicePackage("processed", outcome.value)
    ELSE InvoicePackage("error", NoneV)

\* if invoice_id not in uploaded_documents_cache: ...[invoice_id] = []
WithDocumentList(cache, invoice_id) ==
    IF invoice_id \in DOMAIN cache THEN cache ELSE Put(cache, invoice_id, <<>>)

\* the invoice is cached with its XML data
HasXmlData(invoice_id) ==
    invoice_id \in DOMAIN invoice_cache /\ invoice_cache[invoice_id].xml_data # NoneV

\* main.py _run_oc_comparison(invoice_id, oc_doc): nothing without a cached
\* invoice that has XML data, else oc_comparison_cache[invoice_id] = result
_run_oc_comparison(invoice_id, oc_doc) ==
    IF HasXmlData(invoice_id)
    THEN oc_comparison_cache' =
            Put(oc_comparison_cache, invoice_id,
                CompareDocument(invoice_cache[invoice_id].xml_data, oc_doc))
    ELSE UNCHANGED oc_comparison_cache

HttpResponse(op, invoice_id, force, code) ==
    [op |-> op, invoice_id |-> invoice_id, force |-> force, code |-> code]

CoreUnchanged ==
    UNCHANGED <<xml_content, call_rules, today, parsed, validation,
                ocr_document, comparison, number_input, number_result, extracted>>

Init ==
    /\ xml_content = NoneV
    /\ call_rules = <<>>
    /\ today = 1
    /\ parsed = <<>>
    /\ validation = NoneV
    /\ AppIdle
    /\ ReconcileIdle

\* POST /api/invoices/{invoice_id}/process
ProcessInvoice(invoice_id, force_reprocess) ==
    /\ IF invoice_id \in DOMAIN invoice_cache /\ ~force_reprocess
       THEN UNCHANGED <<invoice_cache, uploaded_documents_cache>>
       ELSE /\ invoice_cache' =
                 Put(invoice_cache, invoice_id,
                     ProcessedPackage(parse_dian_xml(BlobStore[invoice_id], Today(today))))
            /\ uploaded_documents_cache' =
                 WithDocumentList(uploaded_documents_cache, invoice_id)
    /\ response' = HttpResponse("process", invoice_id, force_reprocess, 200)
    /\ UNCHANGED <<custom_rules_cache, oc_comparison_cache>>
    /\ CoreUnchanged
    /\ UNCHANGED <<uploads_reading, attachments_cache, excel_data_cache>>

\* the cache writes of upload_xml_directly once the parse has returned
StoreUpload(invoice_id, outcome) ==
    IF outcome.ok
    THEN /\ invoice_cache' =
              Put(invoice_cache, invoice_id, InvoicePackage("processed", outcome.value))
         /\ uploaded_documents_cache' =
              WithDocumentList(uploaded_documents_cache, invoice_id)
         /\ response' = HttpResponse("upload_xml", invoice_id, FALSE, 200)
    ELSE /\ UNCHANGED <<invoice_cache, uploaded_documents_cache>>
         /\ response' = HttpResponse("upload_xml", invoice_id, FALSE, 500)

\* POST /api/invoices/upload-xml
UploadXmlDirectly(file) ==
    /\ StoreUpload(file.invoice_id, parse_dian_xml(file.content, Today(today)))
    /\ UNCHANGED <<custom_rules_cache, oc_comparison_cache>>
    /\ CoreUnchanged
    /\ UNCHANGED <<uploads_reading, attachments_cache, excel_data_cache>>

\* variant of OtherTypes: the documents of the type stay in the list
EveryType(documents, document_type) == documents

\* [d for d in documents if d.document_type.value != document_type]
OtherTypes(documents, document_type) ==
    SelectSeq(documents, LAMBDA d : d.document_type # document_type)

\* an upload_document_for_ocr request suspended at file.read()
UploadRequest(invoice_id, filename, document_type, reading) ==
    [kind |-> "document", invoice_id |-> invoice_id, filename |-> filename,
     document_type |-> document_type, reading |-> reading]

\* filename.lower().endswith(suffix)
EndsWith(filename, suffix) ==
    /\ Len(filename) >= Len(suffix)
    /\ SubSeq(Lower(filename), Len(filename) - Len(suffix) + 1, Len(filename)) = suffix

\* the status upload_document_for_ocr raises before it reads the file, 0 when
\* it reads it
UploadRejection(invoice_id, filename, document_type) ==
    IF invoice_id \notin DOMAIN invoice_cache THEN 404
    ELSE IF document_type \notin OcrTypes THEN 400
    ELSE IF ~EndsWith(filename, <<".", "p", "d", "f">>) THEN 400
    ELSE 0

\* POST /api/invoices/{invoice_id}/upload-document, up to its suspension at
\* content = await file.read()
UploadDocumentForOcr(invoice_id, filename, document_type, reading) ==
    /\ \/ /\ UploadRejection(invoice_id, filename, document_type) # 0
          /\ response' = HttpResponse("upload_document", invoice_id, FALSE,
                                      UploadRejection(invoice_id, filename, document_type))
          /\ UNCHANGED uploads_reading
       \/ /\ UploadRejection(invoice_id, filename, document_type) = 0
          /\ Cardinality(uploads_reading) < MaxReading
          /\ uploads_reading' =
                uploads_reading
                \cup {UploadRequest(invoice_id, filename, document_type, reading)}
          /\ UNCHANGED response
    /\ UNCHANGED <<invoice_cache, custom_rules_cache, uploaded_documents_cache,
                   oc_comparison_cache, attachments_cache, excel_data_cache>>
    /\ CoreUnchanged

\* the list of the invoice once processed_doc has replaced the document of
\* document_type in it
WithDocument(invoice_id, document_type, processed_doc) ==
    Put(uploaded_documents_cache, invoice_id,
        Append(OtherTypes(GetOr(uploaded_documents_cache, invoice_id, <<>>), document_type),
               processed_doc))

\* upload_document_for_ocr from the return of file.read(): the processed
\* document replaces the one of its type in the list of the invoice
UploadDocumentResume(request) ==
    /\ request \in uploads_reading
    /\ request.kind = "document"
    /\ uploads_reading' = uploads_reading \ {request}
    /\ uploaded_documents_cache' =
          WithDocument(request.invoice_id, request.document_type,
                       process_pdf(request.filename, OcrTypeOf(request.document_type),
                                   request.reading))
    /\ response' = HttpResponse("upload_document", request.invoice_id, FALSE, 200)
    /\ UNCHANGED <<invoice_cache, custom_rules_cache, oc_comparison_cache,
                   attachments_cache, excel_data_cache>>
    /\ CoreUnchanged

\* DELETE /api/invoices/{invoice_id}/documents/{document_type}
DeleteUploadedDocument(invoice_id, document_type) ==
    /\ IF invoice_id \notin DOMAIN uploaded_documents_cache
       THEN /\ response' = HttpResponse("delete_document", invoice_id, FALSE, 404)
            /\ UNCHANGED uploaded_documents_cache
       ELSE /\ uploaded_documents_cache' =
                 Put(uploaded_documents_cache, invoice_id,
                     OtherTypes(uploaded_documents_cache[invoice_id], document_type))
            /\ response' =
                 HttpResponse("delete_document", invoice_id, FALSE,
                     IF Len(OtherTypes(uploaded_documents_cache[invoice_id], document_type))
                           = Len(uploaded_documents_cache[invoice_id])
                     THEN 404 ELSE 200)
    /\ UNCHANGED <<invoice_cache, custom_rules_cache, oc_comparison_cache,
                   uploads_reading, attachments_cache, excel_data_cache>>
    /\ CoreUnchanged

\* the names of the PDFs in the ZIP of each invoice
BlobAttachments ==
    [id \in InvoiceIds |->
        IF id = "inv1" THEN <<OcFileName, TenDigitFile>> ELSE <<>>]

\* GET /api/invoices/{invoice_id}/attachments: the cached list when there is
\* one that is not empty, else the PDFs extracted from the ZIP (none when the
\* extraction raises), which are cached, as an empty list when there are none
GetAttachments(invoice_id) ==
    /\ \/ /\ invoice_id \notin DOMAIN invoice_cache
          /\ response' = HttpResponse("get_attachments", invoice_id, FALSE, 404)
          /\ UNCHANGED attachments_cache
       \/ /\ invoice_id \in DOMAIN invoice_cache
          /\ GetOr(attachments_cache, invoice_id, <<>>) # <<>>
          /\ response' = HttpResponse("get_attachments", invoice_id, FALSE, 200)
          /\ UNCHANGED attachments_cache
       \/ /\ invoice_id \in DOMAIN invoice_cache
          /\ GetOr(attachments_cache, invoice_id, <<>>) = <<>>
          /\ \E found \in {BlobAttachments[invoice_id], <<>>} :
                attachments_cache' = Put(attachments_cache, invoice_id, found)
          /\ response' = HttpResponse("get_attachments", invoice_id, FALSE, 200)
    /\ UNCHANGED <<invoice_cache, custom_rules_cache, uploaded_documents_cache,
                   oc_comparison_cache, uploads_reading, excel_data_cache>>
    /\ CoreUnchanged

\* a["name"] == attachment_name for some a of the list
HasAttachment(attachments, attachment_name) ==
    \E i \in 1..Len(attachments) : attachments[i] = attachment_name

\* the status process_attachment raises before it processes anything, 0 when
\* it processes the attachment
AttachmentRejection(invoice_id, attachment_name, document_type) ==
    IF invoice_id \notin DOMAIN invoice_cache THEN 404
    ELSE IF document_type \notin OcrTypes THEN 400
    ELSE IF invoice_id \notin DOMAIN attachments_cache THEN 404
    ELSE IF ~HasAttachment(attachments_cache[invoice_id], attachment_name) THEN 404
    ELSE 0

\* POST /api/invoices/{invoice_id}/process-attachment
ProcessAttachment(invoice_id, attachment_name, document_type, reading) ==
    /\ \/ /\ AttachmentRejection(invoice_id, attachment_name, document_type) # 0
          /\ response' =
                HttpResponse("process_attachment", invoice_id, FALSE,
                             AttachmentRejection(invoice_id, attachment_name, document_type))
          /\ UNCHANGED <<uploaded_documents_cache, oc_comparison_cache>>
       \/ /\ AttachmentRejection(invoice_id, attachment_name, document_type) = 0
          /\ uploaded_documents_cache' =
                WithDocument(invoice_id, document_type,
                             process_pdf(attachment_name, OcrTypeOf(document_type), reading))
          /\ IF document_type = "orden_compra"
             THEN _run_oc_comparison(invoice_id,
                      process_pdf(attachment_name, OcrTypeOf(document_type), reading))
             ELSE UNCHANGED oc_comparison_cache
          /\ response' = HttpResponse("process_attachment", invoice_id, FALSE, 200)
    /\ UNCHANGED <<invoice_cache, custom_rules_cache, uploads_reading, attachments_cache,
                   excel_data_cache>>
    /\ CoreUnchanged

\* the response of get_oc_comparison
ComparisonResponse(invoice_id, code, data) ==
    [op |-> "get_oc_comparison", invoice_id |-> invoice_id, force |-> FALSE,
     code |-> code, data |-> data]

\* d.document_type == DocumentType.ORDEN_COMPRA for some d of the list
HasOrder(uploaded_docs) ==
    \E i \in 1..Len(uploaded_docs) : uploaded_docs[i].document_type = "orden_compra"

\* next((d for d in uploaded_docs if d.document_type == ORDEN_COMPRA), None)
FirstOrder(uploaded_docs) ==
    uploaded_docs[SetMin({i \in 1..Len(uploaded_docs) :
                             uploaded_docs[i].document_type = "orden_compra"})]

\* GET /api/invoices/{invoice_id}/oc-comparison
GetOcComparison(invoice_id) ==
    /\ \/ /\ invoice_id \notin DOMAIN invoice_cache
          /\ response' = ComparisonResponse(invoice_id, 404, NoneV)
          /\ UNCHANGED oc_comparison_cache
       \/ /\ invoice_id \in DOMAIN invoice_cache
          /\ invoice_id \in DOMAIN oc_comparison_cache
          /\ response' = ComparisonResponse(invoice_id, 200, oc_comparison_cache[invoice_id])
          /\ UNCHANGED oc_comparison_cache
       \/ /\ invoice_id \in DOMAIN invoice_cache
          /\ invoice_id \notin DOMAIN oc_comparison_cache
          /\ ~HasOrder(GetOr(uploaded_documents_cache, invoice_id, <<>>))
          /\ response' = ComparisonResponse(invoice_id, 404, NoneV)
          /\ UNCHANGED oc_comparison_cache
       \/ /\ invoice_id \in DOMAIN invoice_cache
          /\ invoice_id \notin DOMAIN oc_comparison_cache
          /\ HasOrder(GetOr(uploaded_documents_cache, invoice_id, <<>>))
          /\ _run_oc_comparison(invoice_id,
                                FirstOrder(uploaded_documents_cache[invoice_id]))
          /\ response' =
                IF HasXmlData(invoice_id)
                THEN ComparisonResponse(invoice_id, 200, oc_comparison_cache'[invoice_id])
                ELSE ComparisonResponse(invoice_id, 404, NoneV)
    /\ UNCHANGED <<invoice_cache, custom_rules_cache, uploaded_documents_cache,
                   uploads_reading, attachments_cache, excel_data_cache>>
    /\ CoreUnchanged

\* an upload_excel_for_demo request suspended at file.read()
ExcelRequest(invoice_id, excel_type) ==
    [kind |-> "excel", invoice_id |-> invoice_id, excel_type |-> excel_type]

\* POST /api/invoices/{invoice_id}/upload-excel of an .xlsx file, up to its
\* suspension at content = await file.read()
UploadExcelForDemo(invoice_id, excel_type) ==
    /\ \/ /\ invoice_id \notin DOMAIN invoice_cache
          /\ response' = HttpResponse("upload_excel", invoice_id, FALSE, 404)
          /\ UNCHANGED uploads_reading
       \/ /\ invoice_id \in DOMAIN invoice_cache
          /\ Cardinality(uploads_reading) < MaxReading
          /\ uploads_reading' = uploads_reading \cup {ExcelRequest(invoice_id, excel_type)}
          /\ UNCHANGED response
    /\ UNCHANGED <<invoice_cache, custom_rules_cache, uploaded_documents_cache,
                   oc_comparison_cache, attachments_cache, excel_data_cache>>
    /\ CoreUnchanged

\* upload_excel_for_demo from the return of file.read():
\* excel_data_cache[invoice_id][summary["type"]] = summary, the summary
\* being its type
UploadExcelResume(request) ==
    /\ request \in uploads_reading
    /\ request.kind = "excel"
    /\ uploads_reading' = uploads_reading \ {request}
    /\ excel_data_cache' =
          Put(excel_data_cache, request.invoice_id,
              Put(GetOr(excel_data_cache, request.invoice_id, << >>),
                  request.excel_type, request.excel_type))
    /\ response' = HttpResponse("upload_excel", request.invoice_id, FALSE, 200)
    /\ UNCHANGED <<invoice_cache, custom_rules_cache, uploaded_documents_cache,
                   oc_comparison_cache, attachments_cache>>
    /\ CoreUnchanged

\* del cache[invoice_id] if invoice_id in cache
Dropped(cache, invoice_id) == [k \in DOMAIN cache \ {invoice_id} |-> cache[k]]

\* DELETE /api/invoices/{invoice_id}; the container refuses the deletion of
\* the ZIP (the handler logs it and goes on), so the invoice is found only
\* when it is cached
DeleteInvoice(invoice_id) ==
    /\ invoice_cache' = Dropped(invoice_cache, invoice_id)
    /\ custom_rules_cache' = Dropped(custom_rules_cache, invoice_id)
    /\ uploaded_documents_cache' = Dropped(uploaded_documents_cache, invoice_id)
    /\ excel_data_cache' = Dropped(excel_data_cache, invoice_id)
    /\ response' =
          HttpResponse("delete_invoice", invoice_id, FALSE,
                       IF invoice_id \in DOMAIN invoice_cache THEN 200 ELSE 404)
    /\ UNCHANGED <<oc_comparison_cache, attachments_cache, uploads_reading>>
    /\ CoreUnchanged

\* the number of rules stored, over the invoices ids
RECURSIVE StoredRuleCount(_)
StoredRuleCount(ids) ==
    IF ids = {} THEN 0
    ELSE Len(custom_rules_cache[CHOOSE id \in ids : TRUE])
         + StoredRuleCount(ids \ {CHOOSE id \in ids : TRUE})

\* POST /api/rules/custom; the model stores MaxStoredRules rules at most
AddCustomRule(invoice_id, rule) ==
    /\ StoredRuleCount(DOMAIN custom_rules_cache) < MaxStoredRules
    /\ custom_rules_cache' =
          Put(custom_rules_cache, invoice_id,
              Append(GetOr(custom_rules_cache, invoice_id, <<>>), rule))
    /\ response' = HttpResponse("add_custom_rule", invoice_id, FALSE, 200)
    /\ UNCHANGED <<invoice_cache, uploaded_documents_cache, oc_comparison_cache>>
    /\ CoreUnchanged
    /\ UNCHANGED <<uploads_reading, attachments_cache, excel_data_cache>>

\* [r for r in rules if r.id != rule_id]
WithoutRule(rules, rule_id) == SelectSeq(rules, LAMBDA r : r.id # rule_id)

\* DELETE /api/rules/custom/{rule_id}
DeleteCustomRule(invoice_id, rule_id) ==
    /\ IF invoice_id \notin DOMAIN custom_rules_cache
       THEN /\ response' = HttpResponse("delete_custom_rule", invoice_id, FALSE, 404)
            /\ UNCHANGED custom_rules_cache
       ELSE /\ custom_rules_cache' =
                 Put(custom_rules_cache, invoice_id,
                     WithoutRule(custom_rules_cache[invoice_id], rule_id))
            /\ response' =
                 HttpResponse("delete_custom_rule", invoice_id, FALSE,
                     IF WithoutRule(custom_rules_cache[invoice_id], rule_id)
                           = custom_rules_cache[invoice_id]
                     THEN 404 ELSE 200)
    /\ UNCHANGED <<invoice_cache, uploaded_documents_cache, oc_comparison_cache>>
    /\ CoreUnchanged
    /\ UNCHANGED <<uploads_reading, attachments_cache, excel_data_cache>>

\* the xml_data of submit_invoice when the invoice is not cached: the XML of
\* its ZIP parsed on the fly, None when that raises
LoadFromBlob(invoice_id, outcome) == IF outcome.ok THEN outcome.value ELSE NoneV

\* the xml_data submit_invoice works on
SubmitXmlData(invoice_id) ==
    IF invoice_id \in DOMAIN invoice_cache THEN invoice_cache[invoice_id].xml_data
    ELSE IF invoice_id \in DOMAIN BlobStore
         THEN LoadFromBlob(invoice_id, parse_dian_xml(BlobStore[invoice_id], Today(today)))
         ELSE NoneV

\* the validation_result submit_invoice starts from
CachedValidation(invoice_id) ==
    IF invoice_id \in DOMAIN invoice_cache
    THEN invoice_cache[invoice_id].validation_result ELSE NoneV

\* for doc in uploaded_docs: flat_data[f"{prefix}_{field_name}"] = field.value
UploadedKeys(uploaded_docs) ==
    { <<uploaded_docs[i].document_type, "_", f>> :
        i \in 1..Len(uploaded_docs), f \in {"numero_orden"} }

UploadedValue(uploaded_docs, key) ==
    uploaded_docs[SetMax({i \in 1..Len(uploaded_docs) :
                             uploaded_docs[i].document_type = key[1]})].extracted_fields[key[3]].value

WithUploadedFields(flat_data, uploaded_docs) ==
    [k \in DOMAIN flat_data \cup UploadedKeys(uploaded_docs) |->
        IF k \in UploadedKeys(uploaded_docs) THEN UploadedValue(uploaded_docs, k)
        ELSE flat_data[k]]

\* variant of StoredRulesOf: the rules stored for the invoice are not read
NoStoredRules(invoice_id) == <<>>

\* custom_rules_cache.get(invoice_id, [])
StoredRulesOf(invoice_id) == GetOr(custom_rules_cache, invoice_id, <<>>)

\* if not validation_result: validation_result = rules_engine.validate(...)
SubmitValidation(invoice_id, xml_data, validation_result) ==
    IF validation_result # NoneV THEN validation_result
    ELSE validate(xml_data, StoredRulesOf(invoice_id),
                  WithUploadedFields(xml_to_dict(xml_data),
                                     GetOr(uploaded_documents_cache, invoice_id, <<>>)))

\* if not request.force and not validation_result.can_submit: raise 400
SubmitGate(invoice_id, force, validation_result) ==
    IF ~force /\ ~validation_result.can_submit
    THEN HttpResponse("submit", invoice_id, force, 400)
    ELSE HttpResponse("submit", invoice_id, force, 200)

\* if not xml_data: raise 404
SubmitResponse(invoice_id, force, xml_data) ==
    IF xml_data = NoneV THEN HttpResponse("submit", invoice_id, force, 404)
    ELSE SubmitGate(invoice_id, force,
                    SubmitValidation(invoice_id, xml_data, CachedValidation(invoice_id)))

\* POST /api/invoices/{invoice_id}/submit
SubmitInvoice(invoice_id, force) ==
    /\ response' = SubmitResponse(invoice_id, force, SubmitXmlData(invoice_id))
    /\ UNCHANGED <<invoice_cache, custom_rules_cache, uploaded_documents_cache,
                   oc_comparison_cache>>
    /\ CoreUnchanged
    /\ UNCHANGED <<uploads_reading, attachments_cache, excel_data_cache>>

(***************************************************************************)
(* The reconciliation: one input, parsed and compared with the fields of   *)
(* an OCR'd purchase order.                                                *)
(***************************************************************************)
InitCompare ==
    /\ xml_content \in CompareContents
    /\ call_rules = <<>>
    /\ today = 1
    /\ parsed = <<>>
    /\ validation = NoneV
    /\ AppIdle
    /\ ocr_document \in OcDocuments
    /\ comparison = NoneV
    /\ number_input = NoneV
    /\ number_result = NoneV
    /\ extracted = NoneV

\* the invoice the reconciliation is made for
CompareInvoice == "inv1"

\* xml_content uploaded as the XML of CompareInvoice
CompareUpload ==
    UploadXmlDirectly([invoice_id |-> CompareInvoice, content |-> xml_content])

\* _run_oc_comparison(CompareInvoice, ocr_document); comparison records what
\* the call compared and the result it stored
CompareCall ==
    /\ _run_oc_comparison(CompareInvoice, ocr_document)
    /\ comparison' =
          IF HasXmlData(CompareInvoice)
          THEN [xml_data |-> invoice_cache[CompareInvoice].xml_data,
                oc_fields |-> ocr_document.extracted_fields,
                result |-> oc_comparison_cache'[CompareInvoice]]
          ELSE comparison
    /\ UNCHANGED <<xml_content, call_rules, today, parsed, validation>>
    /\ UNCHANGED <<ocr_document, number_input, number_result, extracted>>
    /\ UNCHANGED <<invoice_cache, custom_rules_cache, uploaded_documents_cache, response,
                   uploads_reading, attachments_cache, excel_data_cache>>

NextCompare == CompareUpload \/ CompareCall

SpecCompare == InitCompare /\ [][NextCompare]_vars

Next ==
    \/ \E invoice_id \in InvoiceIds, force_reprocess \in BOOLEAN :
          ProcessInvoice(invoice_id, force_reprocess)
    \/ \E file \in XmlUploads : UploadXmlDirectly(file)
    \/ \E invoice_id \in InvoiceIds :
          UploadDocumentForOcr(invoice_id, OrderFile, "orden_compra",
                               RealReading(OrderFields))
    \/ \E request \in uploads_reading : UploadDocumentResume(request)
    \/ \E invoice_id \in InvoiceIds, rule \in StoredRules : AddCustomRule(invoice_id, rule)
    \/ \E invoice_id \in InvoiceIds, rule_id \in {"S1", "S2"} :
          DeleteCustomRule(invoice_id, rule_id)
    \/ \E invoice_id \in InvoiceIds, force \in BOOLEAN : SubmitInvoice(invoice_id, force)

Spec == Init /\ [][Next]_vars

(***************************************************************************)
(* The handlers that create, fill and delete the entries of an invoice,    *)
(* interleaved at the suspension of the upload.                            *)
(***************************************************************************)
NextRace ==
    \/ \E invoice_id \in InvoiceIds, force_reprocess \in BOOLEAN :
          ProcessInvoice(invoice_id, force_reprocess)
    \/ \E file \in XmlUploads : UploadXmlDirectly(file)
    \/ \E invoice_id \in InvoiceIds :
          UploadDocumentForOcr(invoice_id, OrderFile, "orden_compra",
                               RealReading(OrderFields))
    \/ \E request \in uploads_reading : UploadDocumentResume(request)
    \/ \E invoice_id \in InvoiceIds : DeleteInvoice(invoice_id)

SpecRace == Init /\ [][NextRace]_vars

(***************************************************************************)
(* The handlers of the documents of one invoice and of its reconciliation. *)
(***************************************************************************)
DocumentInvoice == "inv1"

\* a file that is not a PDF
TextFile == <<"n", "o", "t", "e", "s", ".", "t", "x", "t">>

\* the uploads a client makes: an order the service reads, an order in mock
\* mode, a compliance form for which the service raises, a file that is not
\* a PDF and a type that is not accepted
DocumentUploads ==
    { [filename |-> OcFileName, document_type |-> "orden_compra",
       reading |-> RealReading(OcGoodFields)],
      [filename |-> TenDigitFile, document_type |-> "orden_compra",
       reading |-> MockReading],
      [filename |-> OcFileName, document_type |-> "formato_cumplimiento",
       reading |-> FailedReading],
      [filename |-> TextFile, document_type |-> "orden_compra",
       reading |-> MockReading],
      [filename |-> OcFileName, document_type |-> "contrato",
       reading |-> MockReading] }

\* the attachments a client has processed: an order for which the service
\* raises, a compliance form in mock mode, a name the ZIP does not hold and a
\* type that is not accepted
AttachmentCalls ==
    { [filename |-> TenDigitFile, document_type |-> "orden_compra",
       reading |-> FailedReading],
      [filename |-> OcFileName, document_type |-> "formato_cumplimiento",
       reading |-> MockReading],
      [filename |-> TextFile, document_type |-> "orden_compra",
       reading |-> MockReading],
      [filename |-> OcFileName, document_type |-> "contrato",
       reading |-> MockReading] }

NextDocuments ==
    \/ \E force_reprocess \in BOOLEAN : ProcessInvoice(DocumentInvoice, force_reprocess)
    \/ \E file \in XmlUploads : UploadXmlDirectly(file)
    \/ \E u \in DocumentUploads :
          UploadDocumentForOcr(DocumentInvoice, u.filename, u.document_type, u.reading)
    \/ \E request \in uploads_reading : UploadDocumentResume(request)
    \/ \E document_type \in OcrTypes \cup {"contrato"} :
          DeleteUploadedDocument(DocumentInvoice, document_type)
    \/ GetAttachments(DocumentInvoice)
    \/ \E c \in AttachmentCalls :
          ProcessAttachment(DocumentInvoice, c.filename, c.document_type, c.reading)
    \/ GetOcComparison(DocumentInvoice)

SpecDocuments == Init /\ [][NextDocuments]_vars

(***************************************************************************)
(* The life of one invoice over the six caches: it is processed, given a   *)
(* rule, an order, a spreadsheet, its attachments and its reconciliation,  *)
(* and deleted.                                                            *)
(***************************************************************************)
NextDelete ==
    \/ ProcessInvoice(DocumentInvoice, FALSE)
    \/ \E rule \in StoredRules : AddCustomRule(DocumentInvoice, rule)
    \/ UploadDocumentForOcr(DocumentInvoice, OcFileName, "orden_compra",
                            RealReading(OcGoodFields))
    \/ \E request \in uploads_reading : UploadDocumentResume(request)
    \/ UploadExcelForDemo(DocumentInvoice, "aging")
    \/ \E request \in uploads_reading : UploadExcelResume(request)
    \/ GetAttachments(DocumentInvoice)
    \/ ProcessAttachment(DocumentInvoice, TenDigitFile, "orden_compra", MockReading)
    \/ GetOcComparison(DocumentInvoice)
    \/ DeleteInvoice(DocumentInvoice)

SpecDelete == Init /\ [][NextDelete]_vars

(***************************************************************************)
(* Properties of the core pipeline (under SpecCore unless said otherwise). *)
(***************************************************************************)
Validated == validation # NoneV
ValidatedDocument == Validated /\ validation.xml_data # NoneV

\* the status of the i-th result of the last validation
StatusOf(i) == validation.result.results[i].status

\* the severity each rule declares: R001 and R002 block, R003 to R005 warn,
\* a dynamic rule carries its own
DeclaredSeverity(i) ==
    IF i \in {1, 2} THEN "blocking"
    ELSE IF i \in {3, 4, 5} THEN "warning"
    ELSE validation.custom_rules[i - 5].tipo

FailedOfSeverity(tipo) ==
    {i \in 1..Len(validation.result.results) :
        StatusOf(i) = "failed" /\ DeclaredSeverity(i) = tipo}

\* C1: every validation counts as blocking_failures the failed results of
\* blocking severity, as warnings the failed results of warning severity, as
\* passed the passed results, over the five static rules and every dynamic
\* rule, and can_submit holds exactly when blocking_failures is 0.
C1_CountsBySeverity ==
    Validated =>
        /\ Len(validation.result.results) = 5 + Len(validation.custom_rules)
        /\ validation.result.blocking_failures = Cardinality(FailedOfSeverity("blocking"))
        /\ validation.result.warnings = Cardinality(FailedOfSeverity("warning"))
        /\ validation.result.passed =
              Cardinality({i \in 1..Len(validation.result.results) : StatusOf(i) = "passed"})
        /\ validation.result.can_submit <=> (validation.result.blocking_failures = 0)
        /\ validation.result.can_submit <=> (FailedOfSeverity("blocking") = {})

\* a failed blocking dynamic rule blocks the submission although R001 and
\* R002 passed
C1_Witness ==
    /\ Validated
    /\ StatusOf(1) = "passed" /\ StatusOf(2) = "passed"
    /\ \E i \in 6..Len(validation.result.results) :
          StatusOf(i) = "failed" /\ validation.custom_rules[i - 5].tipo = "blocking"
    /\ \E i \in 6..Len(validation.result.results) :
          StatusOf(i) = "failed" /\ validation.custom_rules[i - 5].tipo = "warning"
    /\ ~validation.result.can_submit

\* the end-to-end scenario: an AttachedDocument envelope with the Invoice in
\* a CDATA block, supplier NIT 830099847, a CUFE of 40 or more characters,
\* one IVA entry at 19% and consistent totals, validated with no dynamic rule
EndToEndScenario ==
    /\ ValidatedDocument
    /\ validation.custom_rules = <<>>
    /\ xml_content.root = "AttachedDocument"
    /\ xml_content.embedded = "cdata"
    /\ xml_content.payload.well_formed
    /\ xml_content.payload.tree.AccountingSupplierParty.PartyIdentificationID = El(NitSofttek)
    /\ xml_content.payload.tree.UUID.present
    /\ Len(xml_content.payload.tree.UUID.text) >= 40
    /\ xml_content.payload.tree.TaxTotal =
          <<TaxElement(El(<<"0", "1">>), El(<<"1", "9", ".", "0", "0">>),
                       El(<<"1", "9", "0", "0", "0", ".", "0", "0">>))>>
    /\ xml_content.payload.tree.WithholdingTaxTotal = <<>>
    /\ xml_content.payload.tree.LegalMonetaryTotal =
          Monetary(El(<<"1", "0", "0", "0", "0", "0", ".", "0", "0">>),
                   El(<<"1", "1", "9", "0", "0", "0", ".", "0", "0">>))

\* the envelope's invoice has an OrderReference with a non-empty ID
ScenarioHasOrder ==
    /\ xml_content.payload.tree.OrderReference.present
    /\ xml_content.payload.tree.OrderReference.ID.present
    /\ \E i \in 1..Len(xml_content.payload.tree.OrderReference.ID.text) :
          xml_content.payload.tree.OrderReference.ID.text[i] # " "

FieldAbsent(i) ==
    /\ validation.custom_rules[i].condicion # NoneV
    /\ \/ validation.custom_rules[i].condicion.campo \notin DOMAIN validation.flat_data
       \/ /\ validation.custom_rules[i].condicion.campo \in DOMAIN validation.flat_data
          /\ validation.flat_data[validation.custom_rules[i].condicion.campo] = NoneV

NoIvaEntry ==
    \A i \in 1..Len(validation.xml_data.taxes) :
        validation.xml_data.taxes[i].tax_scheme_id # <<"0", "1">>

StatusesWellFormed ==
    \A i \in 1..Len(validation.result.results) :
        StatusOf(i) \in {"passed", "failed", "skipped"}

\* C4 as stated: every result is passed, failed or skipped, and a rule whose
\* data is missing (no document, empty NIT, empty CUFE, no IVA entry, no
\* order reference, absent flat field) is skipped.
C4_AsStated ==
    Validated =>
        /\ StatusesWellFormed
        /\ validation.xml_data = NoneV => \A i \in 1..5 : StatusOf(i) = "skipped"
        /\ validation.xml_data # NoneV =>
              /\ validation.xml_data.supplier.company_id = <<>> => StatusOf(1) = "skipped"
              /\ validation.xml_data.cufe = <<>> => StatusOf(2) = "skipped"
              /\ NoIvaEntry => StatusOf(4) = "skipped"
              /\ validation.xml_data.order_reference = NoneV => StatusOf(5) = "skipped"
        /\ \A i \in 1..Len(validation.custom_rules) :
              FieldAbsent(i) => StatusOf(5 + i) = "skipped"

\* C4: every result is passed, failed or skipped; without a document the
\* five static rules are skipped, without an IVA entry R004 is skipped, and a
\* dynamic rule without condition or whose field is absent is skipped; on a
\* document, an empty NIT fails R001, an empty CUFE fails R002 and a missing
\* order reference fails R005.
C4_MissingData ==
    Validated =>
        /\ StatusesWellFormed
        /\ validation.xml_data = NoneV => \A i \in 1..5 : StatusOf(i) = "skipped"
        /\ validation.xml_data # NoneV =>
              /\ validation.xml_data.supplier.company_id = <<>> => StatusOf(1) = "failed"
              /\ validation.xml_data.cufe = <<>> => StatusOf(2) = "failed"
              /\ NoIvaEntry => StatusOf(4) = "skipped"
              /\ validation.xml_data.order_reference = NoneV => StatusOf(5) = "failed"
        /\ \A i \in 1..Len(validation.custom_rules) :
              (validation.custom_rules[i].condicion = NoneV \/ FieldAbsent(i))
                  => StatusOf(5 + i) = "skipped"

\* a document without NIT, CUFE and order reference, validated with a
\* dynamic rule on a field the flat map does not have
C4_Witness ==
    /\ ValidatedDocument
    /\ validation.xml_data.cufe = <<>>
    /\ validation.xml_data.order_reference = NoneV
    /\ StatusOf(2) = "failed" /\ StatusOf(5) = "failed"
    /\ \E i \in 1..Len(validation.custom_rules) :
          FieldAbsent(i) /\ StatusOf(5 + i) = "skipped"

(***************************************************************************)
(* Properties of the parser.                                               *)
(***************************************************************************)
\* the tree ET.fromstring is given: the CDATA payload of an envelope, the
\* content itself otherwise
InputTree ==
    IF xml_content.root = "AttachedDocument" /\ xml_content.embedded = "cdata"
    THEN xml_content.payload.tree ELSE xml_content.tree

InputWellFormed ==
    IF xml_content.root = "AttachedDocument" /\ xml_content.embedded = "cdata"
    THEN xml_content.payload.well_formed ELSE xml_content.well_formed

\* the IssueDate element holds the one calendar date of the inputs
IssueDateGiven ==
    InputTree.IssueDate = El(<<"2", "0", "2", "6", "-", "0", "1", "-", "1", "5">>)

\* C5 as stated (under SpecClock): two parses of the same input, made at
\* any two times, return identical outcomes in every field.
C5_AsStated ==
    \A i \in 1..Len(parsed) : \A j \in 1..Len(parsed) :
        parsed[i].outcome = parsed[j].outcome

\* C5 (under SpecClock): two parses of the same input, made at any two
\* times, both fail alike or return documents identical in every field
\* other than issue_date; issue_date is the date of the IssueDate element
\* when it holds one, and the date of the call when the element is missing
\* or unparsable.
C5_DeterministicButIssueDate ==
    \A i \in 1..Len(parsed) : \A j \in 1..Len(parsed) :
        /\ parsed[i].outcome.ok = parsed[j].outcome.ok
        /\ ~parsed[i].outcome.ok => parsed[i].outcome = parsed[j].outcome
        /\ parsed[i].outcome.ok =>
              /\ [parsed[i].outcome.value EXCEPT !.issue_date = NoneV]
                    = [parsed[j].outcome.value EXCEPT !.issue_date = NoneV]
              /\ parsed[i].outcome.value.issue_date =
                    IF IssueDateGiven THEN DateV(2026, 1, 15)
                    ELSE DateV(2026, 1, parsed[i].day)

\* the same input without a usable IssueDate, parsed on two days, gives two
\* issue dates
C5_Witness ==
    \E i \in 1..Len(parsed) : \E j \in 1..Len(parsed) :
        /\ parsed[i].outcome.ok /\ parsed[j].outcome.ok
        /\ parsed[i].day # parsed[j].day
        /\ InputTree.IssueDate.present
        /\ ~IssueDateGiven
        /\ parsed[i].outcome.value.issue_date # parsed[j].outcome.value.issue_date

\* C6: parse_dian_xml returns an error only when the unwrapped content is
\* not well-formed XML; every well-formed invoice yields a document.
C6_ErrorOnlyWhenMalformed ==
    \A i \in 1..Len(parsed) : InputWellFormed => parsed[i].outcome.ok

\* the list positions of a set, in increasing order
RECURSIVE AmountOver(_, _)
AmountOver(taxes, positions) ==
    IF positions = {} THEN 0
    ELSE taxes[SetMax(positions)].tax_amount
         + AmountOver(taxes, positions \ {SetMax(positions)})

Subtotal == validation.xml_data.monetary_total.line_extension_amount
Payable == validation.xml_data.monetary_total.payable_amount

\* subtotal + total IVA - total withholdings of the validated document
ExpectedTotal ==
    Subtotal + validation.xml_data.total_iva - validation.xml_data.total_retenciones

R003 == validation.result.results[3]

\* C7: on a document, R003 passes exactly when the absolute difference
\* between subtotal + total IVA - total withholdings and the payable amount
\* is at most 1% of the payable amount (so never below zero, and at zero
\* only on equality); otherwise it fails and its details carry the computed
\* total, the declared total and diferencia, their absolute difference.
\* Amounts are thousandths; the whole amounts of the model are compared in
\* units.
C7_RelativeTolerance ==
    ValidatedDocument =>
        /\ ExpectedTotal % 1000 = 0 /\ Payable % 1000 = 0
        /\ R003.status \in {"passed", "failed"}
        /\ R003.status = "passed" <=>
              100 * Abs(ExpectedTotal \div 1000 - Payable \div 1000) <= Payable \div 1000
        /\ R003.details.total_calculado = ExpectedTotal
        /\ R003.details.total_factura = Payable
        /\ R003.status = "failed" =>
              R003.details.diferencia = Abs(ExpectedTotal - Payable)
        /\ (Subtotal = 100000000 /\ validation.xml_data.total_iva = 19000000
            /\ validation.xml_data.total_retenciones = 0) =>
              /\ Payable = 119000000 => R003.status = "passed"
              /\ Payable = 125000000 =>
                    R003.status = "failed" /\ R003.details.diferencia = 6000000

\* a difference of exactly 1% of the payable amount passes
C7_Witness ==
    /\ ValidatedDocument
    /\ Payable = 100000000
    /\ ExpectedTotal = 99000000
    /\ R003.status = "passed"

R004 == validation.result.results[4]

IvaPositions ==
    {i \in 1..Len(validation.xml_data.taxes) :
        validation.xml_data.taxes[i].tax_scheme_id = <<"0", "1">>}

\* C8: on a document, R004 is skipped exactly when no output-tax entry has
\* scheme 01; otherwise it passes exactly when every scheme-01 entry has
\* percentage 19.0 and fails, with expected = 19.0, as soon as one has not.
C8_EveryIvaEntry ==
    ValidatedDocument =>
        /\ R004.status = "skipped" <=> IvaPositions = {}
        /\ IvaPositions # {} =>
              /\ R004.status = "passed" <=>
                    \A i \in IvaPositions :
                        validation.xml_data.taxes[i].tax_percentage = 19000
              /\ R004.status = "failed" <=>
                    \E i \in IvaPositions :
                        validation.xml_data.taxes[i].tax_percentage # 19000
              /\ R004.status = "failed" => R004.details.expected = 19000

\* C9: for every parsed document, total_iva is the sum of the amounts of the
\* entries of taxes with scheme 01 and total_retenciones the sum of the
\* amounts of all entries of withholding_taxes; the total R003 computes is
\* subtotal + total_iva - total_retenciones of the document.
C9_DerivedTotals ==
    /\ \A i \in 1..Len(parsed) :
          parsed[i].outcome.ok =>
              /\ parsed[i].outcome.value.total_iva =
                    AmountOver(parsed[i].outcome.value.taxes,
                               {k \in 1..Len(parsed[i].outcome.value.taxes) :
                                   parsed[i].outcome.value.taxes[k].tax_scheme_id = <<"0", "1">>})
              /\ parsed[i].outcome.value.total_retenciones =
                    AmountOver(parsed[i].outcome.value.withholding_taxes,
                               1..Len(parsed[i].outcome.value.withholding_taxes))
    /\ ValidatedDocument =>
          /\ R003.details.iva = validation.xml_data.total_iva
          /\ R003.details.retenciones = validation.xml_data.total_retenciones
          /\ R003.details.total_calculado = ExpectedTotal

\* a document with an IVA entry, an entry of another scheme and a
\* withholding, validated
C9_Witness ==
    /\ ValidatedDocument
    /\ IvaPositions # {}
    /\ IvaPositions # 1..Len(validation.xml_data.taxes)
    /\ validation.xml_data.total_iva > 0
    /\ validation.xml_data.total_retenciones > 0
    /\ \E k \in 1..Len(validation.xml_data.taxes) :
          k \notin IvaPositions /\ validation.xml_data.taxes[k].tax_amount > 0

\* the tax and withholding entries of the documents parsed so far
ParsedEntries ==
    UNION { { parsed[i].outcome.value.taxes[k] :
                k \in 1..Len(parsed[i].outcome.value.taxes) }
            \cup { parsed[i].outcome.value.withholding_taxes[k] :
                k \in 1..Len(parsed[i].outcome.value.withholding_taxes) } :
            i \in {n \in 1..Len(parsed) : parsed[n].outcome.ok} }

RegistryName(e, id, name) == e.tax_scheme_id = id => e.tax_name = name

InRegistry(e) ==
    /\ RegistryName(e, <<"0", "1">>, <<"I", "V", "A">>)
    /\ RegistryName(e, <<"0", "4">>, <<"I", "N", "C">>)
    /\ RegistryName(e, <<"0", "5">>, <<"R", "e", "t", "e", "I", "V", "A">>)
    /\ RegistryName(e, <<"0", "6">>, <<"R", "e", "t", "e", "R", "e", "n", "t", "a">>)
    /\ RegistryName(e, <<"0", "7">>, <<"R", "e", "t", "e", "I", "C", "A">>)

RegistryIds == {<<"0", "1">>, <<"0", "4">>, <<"0", "5">>, <<"0", "6">>, <<"0", "7">>}

\* C10 as stated: every entry of a parsed document is named by the
\* registry, and an entry of any other scheme id is named Otros.
C10_AsStated ==
    \A e \in ParsedEntries :
        /\ InRegistry(e)
        /\ e.tax_scheme_id \notin RegistryIds => e.tax_name = <<"O", "t", "r", "o", "s">>

\* C10: every entry of a parsed document is named by the registry (01 IVA,
\* 04 INC, 05 ReteIVA, 06 ReteRenta, 07 ReteICA, ZZ Otros), and an entry of
\* any other scheme id is named "Tax-" followed by that id.
C10_RegistryNames ==
    \A e \in ParsedEntries :
        /\ InRegistry(e)
        /\ RegistryName(e, <<"Z", "Z">>, <<"O", "t", "r", "o", "s">>)
        /\ e.tax_scheme_id \notin RegistryIds \cup {<<"Z", "Z">>} =>
              e.tax_name = <<"T", "a", "x", "-">> \o e.tax_scheme_id

\* a parsed document with an output tax and a withholding of schemes the
\* registry does not have
C10_Witness ==
    \E i \in 1..Len(parsed) :
        /\ parsed[i].outcome.ok
        /\ \E k \in 1..Len(parsed[i].outcome.value.taxes) :
              /\ parsed[i].outcome.value.taxes[k].tax_scheme_id = <<"0", "3">>
              /\ parsed[i].outcome.value.taxes[k].tax_name = <<"T", "a", "x", "-", "0", "3">>
        /\ \E k \in 1..Len(parsed[i].outcome.value.withholding_taxes) :
              parsed[i].outcome.value.withholding_taxes[k].tax_scheme_id = <<"9", "9">>

(***************************************************************************)
(* Properties of the handlers (under Spec).                                *)
(***************************************************************************)
Submitted == response # NoneV /\ response.op = "submit"

\* the validation of the XML data the submitted invoice has now against the
\* five static rules and the custom rules stored for it now
GateValidation ==
    validate(SubmitXmlData(response.invoice_id),
             IF response.invoice_id \in DOMAIN custom_rules_cache
             THEN custom_rules_cache[response.invoice_id] ELSE <<>>,
             xml_to_dict(SubmitXmlData(response.invoice_id)))

ComparisonMade == comparison # NoneV

FieldResult(i) == comparison.result.comparisons[i]

\* the document has no value for the i-th mapped pair: no order reference,
\* no supplier tax ID, no supplier name
XmlAbsent(i) ==
    CASE i = 1 -> comparison.xml_data.order_reference = NoneV
      [] i = 2 -> comparison.xml_data.supplier.company_id = <<>>
      [] i = 3 -> comparison.xml_data.supplier.registration_name = <<>>
      [] OTHER -> FALSE

\* OCR has no value for the i-th mapped pair
OcAbsent(i) ==
    IF XML_TO_OC_FIELD_MAPPING[i].oc_field \in DOMAIN comparison.oc_fields
    THEN comparison.oc_fields[XML_TO_OC_FIELD_MAPPING[i].oc_field].value = NoneV
    ELSE TRUE

\* C11: for each of the six mapped pairs of a compared document and OCR field
\* map, both values absent gives match=true and type both_missing, only the
\* XML-side value absent (no order reference, no supplier tax ID, no supplier
\* name) gives match=false and type missing_xml, and only the OCR-side value
\* absent gives match=false and type missing_oc.
C11_MissingValues ==
    ComparisonMade =>
        \A i \in 1..6 :
            /\ (XmlAbsent(i) /\ OcAbsent(i)) =>
                  FieldResult(i).match /\ FieldResult(i).match_type = "both_missing"
            /\ (XmlAbsent(i) /\ ~OcAbsent(i)) =>
                  ~FieldResult(i).match /\ FieldResult(i).match_type = "missing_xml"
            /\ (~XmlAbsent(i) /\ OcAbsent(i)) =>
                  ~FieldResult(i).match /\ FieldResult(i).match_type = "missing_oc"

(***************************************************************************)
(* The Colombian-number parse.                                             *)
(***************************************************************************)
NumberParsed == number_input # NoneV /\ number_result # NoneV

\* the text of the reading with currency symbols and spaces removed
C12_Cleaned == WithoutCurrency(PyStr(number_input))

C12_Dots == CountChar(C12_Cleaned, ".")

C12_Commas == CountChar(C12_Cleaned, ",")

\* the digits that follow the only dot of the cleaned text
C12_AfterDot == Len(C12_Cleaned) - DotAt(C12_Cleaned)

\* the cleaned text read with its dots as thousands separators and its
\* commas as the decimal point
C12_DotsThousands == ReplaceChar(RemoveChar(C12_Cleaned, "."), ",", ".")

\* the number a plain decimal text denotes, or the error of a text that
\* denotes none
C12_Denoted(s) == IF FloatOk(s) THEN Returned(DecimalOf(Strip(s))) ELSE Raised("ValueError")

C12_Number(whole, milli) == Returned([negative |-> FALSE, whole |-> whole, milli |-> milli])

\* C12: after removing currency symbols and spaces, a text with both '.' and
\* ',' is read with dots as thousands and the comma as decimal point; a text
\* with only dots as all-thousands when there is more than one dot, and with
\* exactly one dot as a decimal unless exactly three digits follow it and the
\* whole text is longer than six characters (then thousands); a text with
\* only ',' as comma-decimal; so "137.310.992" gives 137310992, "1.234,56"
\* gives 1234.56, "123.45" gives 123.45 and "$ 1.500.000 COP" gives 1500000.
C12_ColombianNumber ==
    NumberParsed =>
        /\ (C12_Dots > 0 /\ C12_Commas > 0) =>
              number_result = C12_Denoted(C12_DotsThousands)
        /\ (C12_Dots > 1 /\ C12_Commas = 0) =>
              number_result = C12_Denoted(RemoveChar(C12_Cleaned, "."))
        /\ (C12_Dots = 1 /\ C12_Commas = 0 /\ C12_AfterDot = 3 /\ Len(C12_Cleaned) > 6) =>
              number_result = C12_Denoted(RemoveChar(C12_Cleaned, "."))
        /\ (C12_Dots = 1 /\ C12_Commas = 0 /\ ~(C12_AfterDot = 3 /\ Len(C12_Cleaned) > 6)) =>
              number_result = C12_Denoted(C12_Cleaned)
        /\ (C12_Dots = 0 /\ C12_Commas > 0) =>
              number_result = C12_Denoted(C12_DotsThousands)
        /\ number_input = StrV(<<"1", "3", "7", ".", "3", "1", "0", ".", "9", "9", "2">>) => number_result = C12_Number(137310992, 0)
        /\ number_input = StrV(<<"1", ".", "2", "3", "4", ",", "5", "6">>) => number_result = C12_Number(1234, 560)
        /\ number_input = StrV(<<"1", "2", "3", ".", "4", "5">>) => number_result = C12_Number(123, 450)
        /\ number_input = StrV(<<"$", " ", "1", ".", "5", "0", "0", ".", "0", "0", "0", " ", "C", "O", "P">>) => number_result = C12_Number(1500000, 0)

\* a single dot followed by three digits in a text of six characters has
\* been read as a decimal point: "12.345" is 12.345
C12_Witness ==
    /\ NumberParsed
    /\ number_input = StrV(<<"1", "2", ".", "3", "4", "5">>)
    /\ number_result = C12_Number(12, 345)

(***************************************************************************)
(* The numeric comparison.                                                 *)
(***************************************************************************)
\* the XML-side number of the i-th mapped pair as the parser produced it,
\* in thousandths
C13_X(i) == XmlValue(comparison.xml_data, XML_TO_OC_FIELD_MAPPING[i].xml_field).n

C13_OcrValue(i) == comparison.oc_fields[XML_TO_OC_FIELD_MAPPING[i].oc_field].value

\* OCR holds a text that denotes a number for the i-th mapped pair
C13_Denotes(i) ==
    /\ ~OcAbsent(i)
    /\ C13_OcrValue(i).t = "str"
    /\ _parse_colombian_number(C13_OcrValue(i)).ok

\* the number the OCR text denotes, in thousandths
C13_Y(i) == Milli(_parse_colombian_number(C13_OcrValue(i)).value)

\* |x - y| / |x| is at most 5%
C13_Within(x, y) == x # 0 /\ Abs(x - y) <= Abs(x) \div 20

\* C13: the numeric comparison of an XML-side number x (payable total,
\* subtotal or total IVA, as the parser produced it) with an OCR value
\* denoting the number y is match=true, type exact if and only if x = y;
\* otherwise match=true, type numeric_close if and only if |x - y| / |x| is at
\* most 5%; otherwise match=false, type mismatch; x = 0 with y different from
\* 0 is a mismatch.
C13_NumericComparison ==
    ComparisonMade =>
        \A i \in 4..6 :
            C13_Denotes(i) =>
                /\ (FieldResult(i).match /\ FieldResult(i).match_type = "exact")
                      <=> C13_X(i) = C13_Y(i)
                /\ C13_X(i) # C13_Y(i) =>
                      ((FieldResult(i).match /\ FieldResult(i).match_type = "numeric_close")
                          <=> C13_Within(C13_X(i), C13_Y(i)))
                /\ (C13_X(i) # C13_Y(i) /\ ~C13_Within(C13_X(i), C13_Y(i))) =>
                      (~FieldResult(i).match /\ FieldResult(i).match_type = "mismatch")

(***************************************************************************)
(* The aggregate of a comparison.                                          *)
(***************************************************************************)
C14_Result == comparison.result

\* the six pairs of the fixed mapping, by their XML-side names
C14_SixFields ==
    <<"order_reference", "supplier_nit", "supplier_name", "total_payable",
      "line_extension_amount", "total_iva">>

C14_MatchCount == Cardinality({i \in 1..6 : C14_Result.comparisons[i].match})

\* matched / total x 100 is at least pct
C14_AtLeast(pct) == 100 * C14_Result.matched_fields >= pct * C14_Result.total_fields

\* C14: every comparison result has exactly one comparison per entry of the
\* fixed six-field mapping, matched_fields is the number of comparisons with
\* match=true, match_percentage is matched_fields / total_fields x 100 (kept
\* here in thousandths of a percent), overall_match is true if and only if the
\* percentage is at least 80, and the conclusion type is success from 90,
\* warning from 70 and below 90, and error below 70.
C14_Aggregate ==
    ComparisonMade =>
        /\ Len(C14_Result.comparisons) = 6
        /\ \A i \in 1..6 : C14_Result.comparisons[i].field_name = C14_SixFields[i]
        /\ C14_Result.total_fields = 6
        /\ C14_Result.matched_fields = C14_MatchCount
        /\ 6 * C14_Result.match_percentage <= 100000 * C14_MatchCount
        /\ 6 * (C14_Result.match_percentage + 1) > 100000 * C14_MatchCount
        /\ C14_Result.overall_match <=> C14_AtLeast(80)
        /\ C14_Result.conclusion_type =
              (IF C14_AtLeast(90) THEN "success"
               ELSE IF C14_AtLeast(70) THEN "warning"
               ELSE "error")

\* five of the six pairs match: 83.3%, an overall match with a warning
C14_Witness ==
    /\ ComparisonMade
    /\ C14_Result.matched_fields = 5
    /\ C14_Result.overall_match
    /\ C14_Result.conclusion_type = "warning"

(***************************************************************************)
(* The unwrapper.                                                          *)
(***************************************************************************)
Extracted == extracted # NoneV

\* the envelope holds no complete invoice: none at all, or one cut short
NoEmbeddedInvoice == xml_content.root = "AttachedDocument" /\ xml_content.embedded = "none"

\* C15: for an AttachedDocument envelope in which no embedded invoice can be
\* located, the unwrapper returns the original content unchanged together
\* with the attachment references it collected; the parse of the envelope is
\* then the parse of that original content with those references, and fails
\* only when the content itself is not well-formed XML.
C15_NoEmbeddedInvoice ==
    /\ (Extracted /\ NoEmbeddedInvoice) =>
          /\ extracted.text = xml_content.layout
          /\ extracted.well_formed = xml_content.well_formed
          /\ extracted.tree = xml_content.tree
          /\ extracted.attachment_refs = CollectedReferences(xml_content)
    /\ (parsed # <<>> /\ NoEmbeddedInvoice) =>
          /\ LastParse = ParseRoot(xml_content.well_formed, xml_content.tree,
                                   CollectedReferences(xml_content),
                                   Today(parsed[Len(parsed)].day))
          /\ LastParse.ok <=> xml_content.well_formed

\* an envelope whose CDATA section holds an invoice without its closing tag,
\* next to two reference elements: the content comes back whole with both
\* references, and its parse returns a document
C15_Witness ==
    /\ Extracted
    /\ NoEmbeddedInvoice
    /\ CdataOpenAt(xml_content.layout) # 0
    /\ extracted.text = xml_content.layout
    /\ Len(extracted.attachment_refs) = 2
    /\ parsed # <<>>
    /\ LastParse.ok

\* C16: for an AttachedDocument envelope whose invoice is embedded in a CDATA
\* section or directly in a description, escaped or not, the unwrapper
\* returns exactly the text from '<Invoice' with its namespace declarations
\* through the matching closing tag, with nothing before or after it.
C16_ExactInvoice ==
    (Extracted /\ xml_content.embedded \in {"cdata", "direct", "escaped"}) =>
        extracted.text = InvoiceMarkup

(***************************************************************************)
(* The references of a parsed document.                                    *)
(***************************************************************************)
C17_Document == LastParse.value

\* the list the unwrapper collects from the content parsed: nothing for a
\* bare invoice
C17_FromEnvelope ==
    IF xml_content.root = "AttachedDocument" THEN CollectedReferences(xml_content) ELSE <<>>

C17_OrderReferences(xml_data) ==
    {i \in 1..Len(xml_data.attachment_references) :
        /\ xml_data.attachment_references[i].reference_type = "orden_compra"
        /\ xml_data.attachment_references[i].reference_id = xml_data.order_reference.order_id}

\* C17: the attachment_references of every parsed document are the list
\* collected from the envelope (empty for a bare invoice), in the order of
\* that list, followed by one more reference of type orden_compra carrying
\* the PO number if and only if order_reference is present; so whenever R005
\* passes, attachment_references holds an orden_compra reference with that
\* PO number.
C17_AttachmentReferences ==
    /\ (parsed # <<>> /\ LastParse.ok) =>
          IF C17_Document.order_reference # NoneV
          THEN C17_Document.attachment_references =
                  C17_FromEnvelope \o
                  <<[reference_id |-> C17_Document.order_reference.order_id,
                     reference_type |-> "orden_compra"]>>
          ELSE C17_Document.attachment_references = C17_FromEnvelope
    /\ (ValidatedDocument /\ StatusOf(5) = "passed") =>
          /\ validation.xml_data.order_reference # NoneV
          /\ C17_OrderReferences(validation.xml_data) # {}

\* an envelope with an attachment and a document reference around an invoice
\* that names its order: R005 passes and the order's reference is the third
C17_Witness ==
    /\ ValidatedDocument
    /\ StatusOf(5) = "passed"
    /\ xml_content.root = "AttachedDocument"
    /\ Len(C17_FromEnvelope) = 2
    /\ C17_OrderReferences(validation.xml_data) = {3}

(***************************************************************************)
(* The flat tax keys.                                                      *)
(***************************************************************************)
\* the flat map holds the base, percentage and amount of the entry under the
\* three keys of its lowercased name
C18_Holds(flat_data, prefix, tax) ==
    /\ TaxKey(prefix, tax, "_base") \in DOMAIN flat_data
    /\ TaxKey(prefix, tax, "_porcentaje") \in DOMAIN flat_data
    /\ TaxKey(prefix, tax, "_valor") \in DOMAIN flat_data
    /\ flat_data[TaxKey(prefix, tax, "_base")] = NumV(tax.taxable_amount)
    /\ flat_data[TaxKey(prefix, tax, "_porcentaje")] = NumV(tax.tax_percentage)
    /\ flat_data[TaxKey(prefix, tax, "_valor")] = NumV(tax.tax_amount)

\* C18: for every output-tax entry t of a validated document the flat map
\* holds t's base, percentage and amount under tax_<lowercased name>_base,
\* _porcentaje and _valor, and for every withholding entry the same under
\* retencion_<lowercased name>_*, also when several entries share a name;
\* flattening the document again gives the same map.
C18_FlatTaxKeys ==
    ValidatedDocument =>
        /\ \A i \in 1..Len(validation.xml_data.taxes) :
              C18_Holds(validation.flat_data, "tax_", validation.xml_data.taxes[i])
        /\ \A i \in 1..Len(validation.xml_data.withholding_taxes) :
              C18_Holds(validation.flat_data, "retencion_",
                        validation.xml_data.withholding_taxes[i])
        /\ xml_to_dict(validation.xml_data) = validation.flat_data

(***************************************************************************)
(* The frame of the comparison.                                            *)
(***************************************************************************)
\* C19: parse, flatten, validate and compare are side-effect free; a step in
\* which a comparison is made leaves every per-invoice cache of the model
\* unchanged: invoice_cache, custom_rules_cache, uploaded_documents_cache and
\* oc_comparison_cache.
C19_SideEffectFree ==
    [][comparison' # comparison =>
          UNCHANGED <<invoice_cache, custom_rules_cache, uploaded_documents_cache,
                      oc_comparison_cache>>]_vars

(***************************************************************************)
(* The caches of an invoice under interleaved requests.                    *)
(***************************************************************************)
\* C20: in every reachable state, whatever the interleaving of the handlers
\* at the suspension of an upload, uploaded_documents_cache has an entry for
\* an invoice id only if invoice_cache has one: an upload racing with
\* delete_invoice leaves no stored document for a deleted invoice.
C20_DocumentsOnlyOfCachedInvoices ==
    DOMAIN uploaded_documents_cache \subseteq DOMAIN invoice_cache

(***************************************************************************)
(* Properties of the dynamic rules (under SpecRules).                      *)
(***************************************************************************)
\* the condition of the i-th dynamic rule of the last validation
ConditionOf(i) == validation.custom_rules[i].condicion

\* the i-th dynamic rule has a condition on a field the flat map holds
\* with a value
FieldPresent(i) ==
    /\ ConditionOf(i) # NoneV
    /\ ConditionOf(i).campo \in DOMAIN validation.flat_data
    /\ validation.flat_data[ConditionOf(i).campo] # NoneV

FieldValue(i) == validation.flat_data[ConditionOf(i).campo]

RulePassed(i) == StatusOf(5 + i) = "passed"

\* both operands convert to numbers
BothNumbers(i) == CoerceOk(FieldValue(i)) /\ CoerceOk(ConditionOf(i).valor)

\* the order of the two numbers, as the operator states it
C24_Ordered(i) ==
    CASE ConditionOf(i).operador = ">" ->
            Coerce(FieldValue(i)) > Coerce(ConditionOf(i).valor)
      [] ConditionOf(i).operador = "<" ->
            Coerce(FieldValue(i)) < Coerce(ConditionOf(i).valor)
      [] ConditionOf(i).operador = ">=" ->
            Coerce(FieldValue(i)) >= Coerce(ConditionOf(i).valor)
      [] ConditionOf(i).operador = "<=" ->
            Coerce(FieldValue(i)) <= Coerce(ConditionOf(i).valor)

\* the two values are equal: as numbers when both convert, as texts otherwise
C24_Equal(i) ==
    IF BothNumbers(i)
    THEN Coerce(FieldValue(i)) = Coerce(ConditionOf(i).valor)
    ELSE PyStr(FieldValue(i)) = PyStr(ConditionOf(i).valor)

\* what the claim makes of the i-th rule
C24_Expected(i) ==
    CASE ConditionOf(i).operador \in {">", "<", ">=", "<="} ->
            BothNumbers(i) /\ C24_Ordered(i)
      [] ConditionOf(i).operador = "==" -> C24_Equal(i)
      [] ConditionOf(i).operador = "!=" -> ~C24_Equal(i)
      [] ConditionOf(i).operador = "contains" ->
            \E k \in 0..Len(PyStr(FieldValue(i))) :
               \E n \in 0..(Len(PyStr(FieldValue(i))) - k) :
                  Lower(SubSeq(PyStr(FieldValue(i)), k + 1, k + n))
                     = Lower(PyStr(ConditionOf(i).valor))
      [] ConditionOf(i).operador = "exists" ->
            \E k \in 1..Len(PyStr(FieldValue(i))) : PyStr(FieldValue(i))[k] # " "
      [] OTHER -> FALSE

\* C24: a dynamic rule on a field that is present passes exactly when its
\* operator holds: >, <, >=, <=, == and != compare the two operands as
\* numbers when both convert; when one does not, == and != compare the two
\* texts and >, <, >=, <= fail; contains holds when the comparison value is
\* a substring of the field value, case ignored; exists holds when the field
\* value is not empty after trimming; any other operator fails.  The rule is
\* failed otherwise and the validation returns in every case.
C24_Operators ==
    Validated =>
        \A i \in 1..Len(validation.custom_rules) :
            FieldPresent(i) =>
                /\ StatusOf(5 + i) \in {"passed", "failed"}
                /\ RulePassed(i) <=> C24_Expected(i)

\* the CUFE "19.0" equals the comparison value "19": the texts differ, the
\* numbers do not
C24_Witness ==
    /\ Validated
    /\ Len(validation.custom_rules) = 1
    /\ FieldPresent(1)
    /\ ConditionOf(1).operador = "=="
    /\ FieldValue(1) = StrV(<<"1", "9", ".", "0">>)
    /\ ConditionOf(1).valor = StrV(<<"1", "9">>)
    /\ RulePassed(1)

\* C25: a dynamic rule is skipped exactly when it has no condition, or the
\* field of its condition is missing from the flat map, or the flat map
\* holds it with a null value, whatever the operator; in every other case
\* its status is passed or failed.
C25_SkippedWithoutValue ==
    Validated =>
        \A i \in 1..Len(validation.custom_rules) :
            /\ StatusOf(5 + i) \in {"passed", "failed", "skipped"}
            /\ StatusOf(5 + i) = "skipped" <=>
                  \/ validation.custom_rules[i].condicion = NoneV
                  \/ validation.custom_rules[i].condicion.campo
                        \notin DOMAIN validation.flat_data
                  \/ validation.flat_data[validation.custom_rules[i].condicion.campo]
                        = NoneV

\* a document without order reference: its flat map holds orden_compra with
\* a null value, and the rule orden_compra != 19 is skipped
C25_Witness ==
    /\ ValidatedDocument
    /\ Len(validation.custom_rules) = 1
    /\ ConditionOf(1) # NoneV
    /\ ConditionOf(1).campo = <<"orden_compra">>
    /\ ConditionOf(1).operador = "!="
    /\ ConditionOf(1).valor = IntV(19)
    /\ <<"orden_compra">> \in DOMAIN validation.flat_data
    /\ validation.flat_data[<<"orden_compra">>] = NoneV
    /\ StatusOf(6) = "skipped"

\* the cac:Attachment elements of the envelope that have an external
\* reference with a URI or a document hash
C26_Referenced(e) ==
    /\ e.tag = "Attachment"
    /\ e.ExternalReference
    /\ (_find_text(e.URI, <<>>) # <<>> \/ _find_text(e.DocumentHash, <<>>) # <<>>)

\* the URI when there is one, else the first 20 characters of the hash
C26_ReferenceId(e) ==
    IF _find_text(e.URI, <<>>) # <<>> THEN _find_text(e.URI, <<>>)
    ELSE [k \in 1..SetMin({20, Len(_find_text(e.DocumentHash, <<>>))}) |->
             _find_text(e.DocumentHash, <<>>)[k]]

C26_IsAttachment(r) == r.reference_type = "archivo_adjunto"

\* C26: the references of type archivo_adjunto the unwrapper collects from a
\* well-formed envelope are, in order, one per Attachment/ExternalReference
\* that has a URI or a document hash, keyed by the URI when a URI is present
\* and otherwise by the first 20 characters of the hash; an external
\* reference with neither yields none.
C26_ExternalReferences ==
    (Extracted /\ xml_content.well_formed) =>
        /\ Len(SelectSeq(extracted.attachment_refs, C26_IsAttachment))
              = Len(SelectSeq(xml_content.references, C26_Referenced))
        /\ \A k \in 1..Len(SelectSeq(xml_content.references, C26_Referenced)) :
              SelectSeq(extracted.attachment_refs, C26_IsAttachment)[k].reference_id
                 = C26_ReferenceId(SelectSeq(xml_content.references, C26_Referenced)[k])

\* the cac:DocumentReference elements of the envelope that have an ID
C27_Identified(e) == e.tag = "DocumentReference" /\ _find_text(e.ID, <<>>) # <<>>

C27_IsDocument(r) == r.reference_type # "archivo_adjunto"

\* the declared type names a purchase order ("Orden de Compra")
C27_TypeOfOrder(e) ==
    Contains(Lower(_find_text(e.DocumentType, <<>>)), <<"o", "r", "d", "e", "n">>)

\* the declared type names a contract
C27_TypeOfContract(e) ==
    Contains(Lower(_find_text(e.DocumentType, <<>>)),
             <<"c", "o", "n", "t", "r", "a", "t", "o">>)

\* the id is that of a purchase order: it starts with OC
C27_IdOfOrder(e) ==
    /\ Len(_find_text(e.ID, <<>>)) >= 2
    /\ Lower(SubSeq(_find_text(e.ID, <<>>), 1, 2)) = <<"o", "c">>

C27_Class(e) ==
    IF C27_TypeOfOrder(e) \/ C27_IdOfOrder(e) THEN "orden_compra"
    ELSE IF C27_TypeOfContract(e) THEN "contrato"
    ELSE "documento"

\* C27: the unwrapper collects from a well-formed envelope one reference per
\* DocumentReference that has an id, classified orden_compra when the
\* declared type or the id is that of a purchase order, contrato when the
\* declared type is that of a contract, documento otherwise; the reference
\* DOC-1 of declared type Contrato is classified contrato.
C27_DocumentReferences ==
    (Extracted /\ xml_content.well_formed) =>
        /\ Len(SelectSeq(extracted.attachment_refs, C27_IsDocument))
              = Len(SelectSeq(xml_content.references, C27_Identified))
        /\ \A k \in 1..Len(SelectSeq(xml_content.references, C27_Identified)) :
              /\ SelectSeq(extracted.attachment_refs, C27_IsDocument)[k].reference_id
                    = _find_text(SelectSeq(xml_content.references, C27_Identified)[k].ID, <<>>)
              /\ SelectSeq(extracted.attachment_refs, C27_IsDocument)[k].reference_type
                    = C27_Class(SelectSeq(xml_content.references, C27_Identified)[k])

(***************************************************************************)
(* The text comparisons and the verdict of the reconciliation (under       *)
(* SpecCompare).                                                           *)
(***************************************************************************)
\* both values of the i-th mapped pair are present
BothPresent(i) == FieldResult(i).xml_value # NoneV /\ FieldResult(i).oc_value # NoneV

\* the two values of the i-th pair, trimmed, case ignored
TrimmedXml(i) == Lower(Strip(PyStr(FieldResult(i).xml_value)))
TrimmedOc(i) == Lower(Strip(PyStr(FieldResult(i).oc_value)))

\* the text a is a run of consecutive characters of the text b
SubstringOf(a, b) ==
    \E k \in 0..Len(b) : k + Len(a) <= Len(b) /\ SubSeq(b, k + 1, k + Len(a)) = a

\* one value of the i-th pair is a substring of the other
OneInOther(i) ==
    SubstringOf(TrimmedXml(i), TrimmedOc(i)) \/ SubstringOf(TrimmedOc(i), TrimmedXml(i))

\* C28: for the pairs of kind exact (PO number, supplier tax ID) with both
\* values present, the result is match=true of type exact exactly when the
\* trimmed values are equal ignoring case, else match=true of type partial
\* exactly when one value is a substring of the other, else match=false of
\* type mismatch.
C28_ExactKind ==
    ComparisonMade =>
        \A i \in {1, 2} :
            BothPresent(i) =>
                /\ FieldResult(i).match_type \in {"exact", "partial", "mismatch"}
                /\ FieldResult(i).match <=> FieldResult(i).match_type # "mismatch"
                /\ FieldResult(i).match_type = "exact" <=> TrimmedXml(i) = TrimmedOc(i)
                /\ FieldResult(i).match_type = "partial" <=>
                      (TrimmedXml(i) # TrimmedOc(i) /\ OneInOther(i))

\* the order OC-1 of the invoice against the number "C-1" that OCR read: the
\* OCR text is part of the XML text, a partial match
C28_Witness ==
    /\ ComparisonMade
    /\ BothPresent(1)
    /\ FieldResult(1).xml_value = StrV(PoNumber)
    /\ FieldResult(1).oc_value = StrV(<<"C", "-", "1">>)
    /\ FieldResult(1).match
    /\ FieldResult(1).match_type = "partial"

\* the words of a text: its maximal runs of characters other than blanks
WordsOf(s) ==
    { SubSeq(s, p[1], p[2]) :
        p \in { q \in (1..Len(s)) \X (1..Len(s)) :
                  /\ q[1] <= q[2]
                  /\ \A k \in q[1]..q[2] : s[k] # " "
                  /\ (q[1] > 1 => s[q[1] - 1] = " ")
                  /\ (q[2] < Len(s) => s[q[2] + 1] = " ") } }

CommonWords(i) == WordsOf(TrimmedXml(i)) \cap WordsOf(TrimmedOc(i))

SmallerWordSet(i) ==
    IF Cardinality(WordsOf(TrimmedXml(i))) <= Cardinality(WordsOf(TrimmedOc(i)))
    THEN Cardinality(WordsOf(TrimmedXml(i)))
    ELSE Cardinality(WordsOf(TrimmedOc(i)))

\* C29: for the pair of kind contains (supplier name) with both values
\* present, the result is match=true of type exact when one value is a
\* substring of the other, else match=true of type partial exactly when the
\* words common to both values are at least half of the smaller of the two
\* word sets, else match=false of type mismatch.
C29_ContainsKind ==
    (ComparisonMade /\ BothPresent(3)) =>
        /\ FieldResult(3).match_type \in {"exact", "partial", "mismatch"}
        /\ FieldResult(3).match <=> FieldResult(3).match_type # "mismatch"
        /\ FieldResult(3).match_type = "exact" <=> OneInOther(3)
        /\ FieldResult(3).match_type = "partial" <=>
              (~OneInOther(3) /\ 2 * Cardinality(CommonWords(3)) >= SmallerWordSet(3))

\* "SOFTTEK RENOVATION SAS" against "ACME SAS": one common word, half of
\* the two words of the smaller set
C29_Witness ==
    /\ ComparisonMade
    /\ BothPresent(3)
    /\ ~OneInOther(3)
    /\ Cardinality(CommonWords(3)) = 1
    /\ SmallerWordSet(3) = 2
    /\ Cardinality(WordsOf(TrimmedXml(3))) = 3
    /\ FieldResult(3).match
    /\ FieldResult(3).match_type = "partial"

\* the comparisons of the result that match
MatchingFields == {i \in 1..Len(comparison.result.comparisons) : FieldResult(i).match}

\* C30: in every comparison result overall_match implies a conclusion of
\* type success or warning, success implies overall_match and error implies
\* no overall_match; the result has six comparisons and overall_match holds
\* exactly when at least five of them match, a both_missing comparison being
\* a match.
C30_VerdictAndBand ==
    ComparisonMade =>
        /\ comparison.result.overall_match =>
              comparison.result.conclusion_type \in {"success", "warning"}
        /\ comparison.result.conclusion_type = "success" => comparison.result.overall_match
        /\ comparison.result.conclusion_type = "error" => ~comparison.result.overall_match
        /\ Len(comparison.result.comparisons) = 6
        /\ comparison.result.overall_match <=> Cardinality(MatchingFields) >= 5
        /\ \A i \in 1..6 : FieldResult(i).match_type = "both_missing" => FieldResult(i).match

\* neither side has an order number and the tax IDs differ: five of six
\* comparisons match, one of them both_missing, and the verdict is a match
\* with a warning
C30_Witness ==
    /\ ComparisonMade
    /\ FieldResult(1).match_type = "both_missing"
    /\ ~FieldResult(2).match
    /\ Cardinality(MatchingFields) = 5
    /\ comparison.result.overall_match
    /\ comparison.result.conclusion_type = "warning"

(***************************************************************************)
(* Properties of the documents of an invoice (under SpecDocuments).        *)
(***************************************************************************)
\* the documents of a type in the list of the invoice
DocumentsOfType(invoice_id, document_type) ==
    {i \in 1..Len(uploaded_documents_cache[invoice_id]) :
        uploaded_documents_cache[invoice_id][i].document_type = document_type}

OnePerType ==
    \A invoice_id \in DOMAIN uploaded_documents_cache :
        /\ \A i \in 1..Len(uploaded_documents_cache[invoice_id]) :
              uploaded_documents_cache[invoice_id][i].document_type \in OcrTypes
        /\ \A document_type \in OcrTypes :
              Cardinality(DocumentsOfType(invoice_id, document_type)) <= 1

\* the last document of the list of the invoice is of the type
StoredAs(invoice_id, document_type) ==
    /\ invoice_id \in DOMAIN uploaded_documents_cache
    /\ uploaded_documents_cache[invoice_id] # <<>>
    /\ uploaded_documents_cache[invoice_id][Len(uploaded_documents_cache[invoice_id])]
          .document_type = document_type

\* C23: the list of the uploaded documents of an invoice holds at most one
\* document of each type, and the document an upload or the processing of an
\* attachment stores has the type the request asked for, whether the
\* processor read the PDF, ran in mock mode or fell back to the mock data.
C23_OneDocumentPerType ==
    /\ []OnePerType
    /\ [][/\ \A request \in uploads_reading :
               UploadDocumentResume(request)
                  => StoredAs(request.invoice_id, request.document_type)'
           /\ \A c \in AttachmentCalls :
               (ProcessAttachment(DocumentInvoice, c.filename, c.document_type, c.reading)
                   /\ response'.code = 200)
                  => StoredAs(DocumentInvoice, c.document_type)']_vars

\* a compliance form and, stored after it, the order of an attachment for
\* which the processor fell back to the mock data
C23_Witness ==
    /\ DocumentInvoice \in DOMAIN uploaded_documents_cache
    /\ Len(uploaded_documents_cache[DocumentInvoice]) = 2
    /\ uploaded_documents_cache[DocumentInvoice][1].document_type = "formato_cumplimiento"
    /\ uploaded_documents_cache[DocumentInvoice][2].document_type = "orden_compra"
    /\ "_modo_demo" \in DOMAIN uploaded_documents_cache[DocumentInvoice][2].extracted_fields
    /\ response # NoneV /\ response.op = "process_attachment" /\ response.code = 200

(***************************************************************************)
(* Properties of the deletion of an invoice (under SpecDelete).            *)
(***************************************************************************)
\* the last response is the success of delete_invoice(invoice_id)
DeletedJust(invoice_id) ==
    /\ response # NoneV
    /\ response.op = "delete_invoice"
    /\ response.invoice_id = invoice_id
    /\ response.code = 200

\* C22: after a successful delete_invoice(id) none of the six per-invoice
\* caches (invoice, custom rules, uploaded documents, Excel data,
\* attachments, comparison) has an entry for id.
C22_NoEntryAfterDelete ==
    \A invoice_id \in InvoiceIds :
        DeletedJust(invoice_id) =>
            /\ invoice_id \notin DOMAIN invoice_cache
            /\ invoice_id \notin DOMAIN custom_rules_cache
            /\ invoice_id \notin DOMAIN uploaded_documents_cache
            /\ invoice_id \notin DOMAIN excel_data_cache
            /\ invoice_id \notin DOMAIN attachments_cache
            /\ invoice_id \notin DOMAIN oc_comparison_cache

(***************************************************************************)
(* Properties of the reconciliation a client reads (under SpecDocuments).  *)
(***************************************************************************)
\* the last response is a result of get_oc_comparison(invoice_id)
ComparisonReturned(invoice_id) ==
    /\ response # NoneV
    /\ response.op = "get_oc_comparison"
    /\ response.invoice_id = invoice_id
    /\ response.code = 200

\* C21: a result get_oc_comparison returns for an invoice is the comparison
\* of the XML data now cached for the invoice with the orden_compra document
\* now stored for it, its oc_file_name is the file name of that document, and
\* no result is returned when no orden_compra document is stored.
C21_ResultOfCurrentData ==
    \A invoice_id \in InvoiceIds :
        ComparisonReturned(invoice_id) =>
            /\ HasOrder(GetOr(uploaded_documents_cache, invoice_id, <<>>))
            /\ response.data.oc_file_name =
                  FirstOrder(uploaded_documents_cache[invoice_id]).file_name
            /\ response.data =
                  CompareDocument(invoice_cache[invoice_id].xml_data,
                                  FirstOrder(uploaded_documents_cache[invoice_id]))

====
